---- MODULE Spec2Model ----
(***************************************************************************)
(* OpenCalc: the hierarchical cost-item aggregation model.                 *)
(*                                                                         *)
(* CostItem and CostValue objects live in two heaps (item, cval) indexed   *)
(* by object identity, so that sharing, aliasing and the dataclass         *)
(* field-wise equality used by list.index / list.remove / "in" can be      *)
(* told apart from identity.  Money and quantities are exact rationals     *)
(* <<numerator, denominator>>; binary floating-point rounding is not       *)
(* represented.                                                            *)
(***************************************************************************)
EXTENDS Integers, Sequences, FiniteSets, TLC

\* ------------------------------------------------------------------ bounds
\* number of CostItem objects the heap holds
MaxNodes == 4
\* number of CostItem objects the environment constructs directly
MaxNew == 3
\* number of CostItem objects the heap holds where copies are studied
MaxCopyNodes == 6
\* longest children / items list the environment builds
MaxLen == 2
\* number of calls the environment makes on constructed objects
MaxCalls == 3
\* the longest list of root chapters built by the add-chapter handler
MaxChapters == 3
MaxRounds == 5

\* ---------------------------------------------------------------- constants
\* Python None for object references (object ids start at 1)
None == 0
\* the one CostSchedule object of the document, as value of CostItem.schedule
TheSchedule == 1


\* exceptions an operation can end with
RecursionError == "RecursionError"
ValueError == "ValueError"

\* ---------------------------------------------------------------- rationals
RECURSIVE Gcd(_, _)
Gcd(a, b) == IF b = 0 THEN a ELSE Gcd(b, a % b)

Abs(n) == IF n < 0 THEN -n ELSE n

\* the normalised fraction n/d (d # 0)
Rat(n, d) ==
    LET g == Gcd(Abs(n), Abs(d))
        s == IF d < 0 THEN -1 ELSE 1
    IN  IF n = 0 THEN <<0, 1>> ELSE <<(s * n) \div g, (s * d) \div g>>

RInt(n) == <<n, 1>>
RAdd(x, y) == Rat(x[1] * y[2] + y[1] * x[2], x[2] * y[2])
RMul(x, y) == Rat(x[1] * y[1], x[2] * y[2])
RDiv(x, y) == Rat(x[1] * y[2], x[2] * y[1])
Zero == RInt(0)

\* ------------------------------------------------------------------- state
VARIABLES
    item,         \* heap of CostItem objects: id -> record of its fields
    cval,         \* heap of CostValue objects: id -> record of its fields
    sched,        \* the CostSchedule object: items (root list) and vat_rate
    clipboard,    \* MainWindow._clipboard_item (None or a CostItem id)
    ifc,          \* the persisted IfcCostItem records of the open file
    is_modified,  \* IFCHandler._is_modified, the dirty flag
    app,          \* the other fields of CostTableView, MainWindow and IFCHandler
    last          \* the call that produced this state and what it returned

vars == <<item, cval, sched, clipboard, ifc, is_modified, app, last>>

\* CostTableView.__init__ (no sort), MainWindow (no handler running: the
\* guard flags read False, stack holds the handler calls in progress) and
\* the IFCHandler after new_file (a file without a path)
NewApp ==
    [sort_column |-> -1, sort_order |-> "Ascending",
     handling_data_change |-> FALSE, updating_item |-> FALSE,
     ifc_file |-> TRUE, file_path |-> <<>>, stack |-> <<>>]

\* a freshly constructed CostValue: the dataclass defaults
NewCostValue(up, q, qt) ==
    [unit_price |-> up, quantity |-> q, quantity_type |-> qt,
     category |-> "", description |-> "",
     ifc_cost_value |-> None, ifc_quantity |-> None]

\* a freshly constructed CostItem owning CostValue cv: the dataclass defaults
NewCostItem(nm, ident, text, cv) ==
    [name |-> nm, html_name |-> "", identification |-> ident,
     sfb_code |-> "", description |-> "", is_text_only |-> text,
     cost_value |-> cv, children |-> <<>>, parent |-> None,
     schedule |-> None, ifc_cost_item |-> None]

\* the record of a call: operation, receiver, argument, index argument,
\* boolean result or exception (ret), returned object (out), the number of
\* calls made so far (n), and the most recent copy() as <<original, copy>>
NoCall == [op |-> "init", self |-> None, arg |-> None, index |-> 0,
           ret |-> "None", out |-> None, n |-> 0, cp |-> <<>>]

Called(o, s, a, i, r, u) ==
    [op |-> o, self |-> s, arg |-> a, index |-> i, ret |-> r, out |-> u,
     n |-> last.n + 1, cp |-> last.cp]

\* the environment makes at most MaxCalls calls
CanCall == last.n < MaxCalls

\* the state MainWindow._new_file leaves: an empty schedule, nothing
\* persisted but the schedule record, the dirty flag set
Init ==
    /\ item = <<>>
    /\ cval = <<>>
    /\ sched = [items |-> <<>>, vat_rate |-> RInt(21)]
    /\ clipboard = None
    /\ ifc = <<>>
    /\ is_modified = TRUE
    /\ app = NewApp
    /\ last = NoCall

\* ------------------------------------------------------------ list helpers
RemoveAt(s, i) == SubSeq(s, 1, i - 1) \o SubSeq(s, i + 1, Len(s))

\* s with x before 1-based position i (1 <= i <= Len(s) + 1)
InsertAt(s, i, x) == SubSeq(s, 1, i - 1) \o <<x>> \o SubSeq(s, i, Len(s))

\* list.insert(index, x) with Python's index normalisation (0-based index)
PyInsert(s, index, x) ==
    LET i0 == IF index < 0 THEN index + Len(s) ELSE index
        i1 == IF i0 < 0 THEN 0 ELSE IF i0 > Len(s) THEN Len(s) ELSE i0
    IN  InsertAt(s, i1 + 1, x)

Range(s) == {s[i] : i \in DOMAIN s}

\* --------------------------------------------------- dataclass equality
\* CostValue.__eq__ generated by @dataclass: field-wise, after the identity
\* shortcut of the containing tuple comparison
EqValue(c, v, w) == v = w \/ c[v] = c[w]

\* a == b as the containing list / tuple comparison evaluates it: identity
\* first, else CostItem.__eq__ generated by @dataclass, which compares the
\* tuples of all fields in declaration order and stops at the first field
\* that differs.  children compares element-wise and parent compares the
\* parents with the same __eq__, so the comparison can re-enter itself on
\* the same pair of objects: Python then recurses until RecursionError.
\* stack holds the pairs whose comparison is in progress.
RECURSIVE EqItem(_, _, _, _, _)
RECURSIVE EqList(_, _, _, _, _, _)
EqItem(h, c, a, b, stack) ==
    IF a = b THEN "True"
    ELSE IF <<a, b>> \in stack THEN RecursionError
    ELSE
      LET x == h[a]
          y == h[b]
          st == stack \cup {<<a, b>>}
      IN
      IF \/ x.name # y.name
         \/ x.html_name # y.html_name
         \/ x.identification # y.identification
         \/ x.sfb_code # y.sfb_code
         \/ x.description # y.description
         \/ x.is_text_only # y.is_text_only
         \/ ~EqValue(c, x.cost_value, y.cost_value)
      THEN "False"
      ELSE IF Len(x.children) # Len(y.children) THEN "False"
      ELSE
        LET ch == EqList(h, c, x.children, y.children, 1, st) IN
        IF ch # "True" THEN ch
        ELSE
          LET pr == IF x.parent = y.parent THEN "True"
                    ELSE IF x.parent = None \/ y.parent = None THEN "False"
                    ELSE EqItem(h, c, x.parent, y.parent, st)
          IN
          IF pr # "True" THEN pr
          ELSE IF x.schedule # y.schedule THEN "False"
          ELSE IF x.ifc_cost_item # y.ifc_cost_item THEN "False"
          ELSE "True"

\* list.__eq__ on two lists of equal length, from position i on
EqList(h, c, s, t, i, stack) ==
    IF i > Len(s) THEN "True"
    ELSE LET r == EqItem(h, c, s[i], t[i], stack) IN
         IF r # "True" THEN r ELSE EqList(h, c, s, t, i + 1, stack)

\* list.index(x): the 1-based position of the first element equal to x,
\* 0 when there is none (ValueError), -1 when a comparison ends in
\* RecursionError
RECURSIVE ListIndexFrom(_, _, _, _, _)
ListIndexFrom(h, c, s, x, i) ==
    IF i > Len(s) THEN 0
    ELSE LET r == EqItem(h, c, s[i], x, {}) IN
         IF r = "True" THEN i
         ELSE IF r = RecursionError THEN -1
         ELSE ListIndexFrom(h, c, s, x, i + 1)

ListIndex(h, c, s, x) == ListIndexFrom(h, c, s, x, 1)

\* ------------------------------------------------------------ CostValue
\* CostValue.total
ValueTotal(v) == RMul(v.quantity, v.unit_price)

\* item.unit_price / item.quantity / item.quantity_type: read through to the
\* CostValue the item owns
unit_price(h, c, n) == c[h[n].cost_value].unit_price
quantity(h, c, n) == c[h[n].cost_value].quantity
quantity_type(h, c, n) == c[h[n].cost_value].quantity_type

\* ------------------------------------------------------------- CostItem
is_leaf(h, n) == Len(h[n].children) = 0
is_chapter(h, n) == Len(h[n].children) > 0

\* a computed number, or the RecursionError a cyclic tree ends in
Ok(v) == [ok |-> TRUE, val |-> v]
Raised == [ok |-> FALSE, val |-> Zero]

RECURSIVE SubtotalRec(_, _, _, _)
RECURSIVE SumSubtotals(_, _, _, _, _, _)
\* a subtotal that looks at the children before the text flag
SubtotalLeafFirst(h, c, n, stack) ==
    IF n \in stack THEN Raised
    ELSE IF is_leaf(h, n) THEN
        IF h[n].is_text_only THEN Ok(Zero)
        ELSE Ok(ValueTotal(c[h[n].cost_value]))
    ELSE SumSubtotals(h, c, h[n].children, 1, Zero, stack \cup {n})

\* CostItem.subtotal; stack holds the items whose subtotal is being computed
SubtotalRec(h, c, n, stack) ==
    IF n \in stack THEN Raised
    ELSE IF h[n].is_text_only THEN Ok(Zero)
    ELSE IF is_leaf(h, n) THEN Ok(ValueTotal(c[h[n].cost_value]))
    ELSE SumSubtotals(h, c, h[n].children, 1, Zero, stack \cup {n})

\* sum(child.subtotal for child in s), left to right from 0
SumSubtotals(h, c, s, i, acc, stack) ==
    IF i > Len(s) THEN Ok(acc)
    ELSE LET r == SubtotalRec(h, c, s[i], stack) IN
         IF ~r.ok THEN Raised
         ELSE SumSubtotals(h, c, s, i + 1, RAdd(acc, r.val), stack)

subtotal(h, c, n) == SubtotalRec(h, c, n, {})

\* CostItem.total, the alias
total(h, c, n) == subtotal(h, c, n)

\* an add_child that leaves the child's parent link as it was
add_child_keeps_parent(h, self, child) ==
    LET h1 == [h EXCEPT ![child].schedule = h[self].schedule]
    IN  [h1 EXCEPT ![self].children = Append(@, child)]

\* CostItem.add_child
add_child(h, self, child) ==
    LET h1 == [h EXCEPT ![child].parent = self]
        h2 == [h1 EXCEPT ![child].schedule = h1[self].schedule]
    IN  [h2 EXCEPT ![self].children = Append(@, child)]

\* an insert that ignores the index and appends
insert_child_at_end(h, self, index, child) ==
    LET h1 == [h EXCEPT ![child].parent = self]
        h2 == [h1 EXCEPT ![child].schedule = h1[self].schedule]
    IN  [h2 EXCEPT ![self].children = Append(@, child)]

\* CostItem.insert_child
insert_child(h, self, index, child) ==
    LET h1 == [h EXCEPT ![child].parent = self]
        h2 == [h1 EXCEPT ![child].schedule = h1[self].schedule]
    IN  [h2 EXCEPT ![self].children = PyInsert(@, index, child)]

\* CostItem.remove_child: the heap it leaves and what it returns or raises
remove_child(h, c, self, child) ==
    LET found == ListIndex(h, c, h[self].children, child) IN
    IF found = -1 THEN [h |-> h, ret |-> RecursionError]
    ELSE IF found = 0 THEN [h |-> h, ret |-> "False"]
    ELSE
      LET h1 == [h EXCEPT ![child].parent = None]
          h2 == [h1 EXCEPT ![child].schedule = None]
          i == ListIndex(h2, c, h2[self].children, child)
      IN
      IF i = -1 THEN [h |-> h2, ret |-> RecursionError]
      ELSE IF i = 0 THEN [h |-> h2, ret |-> ValueError]
      ELSE [h |-> [h2 EXCEPT ![self].children = RemoveAt(@, i)],
            ret |-> "True"]

\* CostItem.get_child_index, 0-based; -1 when not found, -2 when the lookup
\* ends in RecursionError (which the except ValueError does not catch)
get_child_index(h, c, self, child) ==
    LET i == ListIndex(h, c, h[self].children, child) IN
    IF i = -1 THEN -2 ELSE i - 1

\* CostItem.move_up
move_up(h, c, self) ==
    IF h[self].parent = None THEN [h |-> h, ret |-> "False"]
    ELSE
      LET p == h[self].parent
          index == get_child_index(h, c, p, self)
      IN
      IF index = -2 THEN [h |-> h, ret |-> RecursionError]
      ELSE IF index <= 0 THEN [h |-> h, ret |-> "False"]
      ELSE
        LET removed == RemoveAt(h[p].children, index + 1) IN
        [h |-> [h EXCEPT ![p].children = PyInsert(removed, index - 1, self)],
         ret |-> "True"]

\* CostItem.move_down
move_down(h, c, self) ==
    IF h[self].parent = None THEN [h |-> h, ret |-> "False"]
    ELSE
      LET p == h[self].parent
          index == get_child_index(h, c, p, self)
      IN
      IF index = -2 THEN [h |-> h, ret |-> RecursionError]
      ELSE IF index < 0 \/ index >= Len(h[p].children) - 1
        THEN [h |-> h, ret |-> "False"]
      ELSE
        LET removed == RemoveAt(h[p].children, index + 1) IN
        [h |-> [h EXCEPT ![p].children = PyInsert(removed, index + 1, self)],
         ret |-> "True"]

\* the nodes reachable from n through children lists, n included
RECURSIVE ReachFrom(_, _, _)
ReachFrom(h, frontier, seen) ==
    IF frontier = {} THEN seen
    ELSE LET next == UNION {Range(h[m].children) : m \in frontier} \ seen
         IN  ReachFrom(h, next, seen \cup next)

Subtree(h, n) == ReachFrom(h, {n}, {n})

\* CostItem.level: the number of parent links above n; -1 when the parent
\* chain is cyclic and the loop never ends
RECURSIVE LevelFrom(_, _, _, _)
LevelFrom(h, it, lvl, seen) ==
    IF it = None THEN lvl
    ELSE IF it \in seen THEN -1
    ELSE LevelFrom(h, h[it].parent, lvl + 1, seen \cup {it})

level(h, n) == LevelFrom(h, h[n].parent, 0, {})

\* CostItem.get_path: path = [self], then every ancestor inserted in
\* front; <<>> when the parent chain is cyclic and the loop never ends
RECURSIVE PathFrom(_, _, _)
PathFrom(h, path, it) ==
    IF it = None THEN path
    ELSE IF it \in Range(path) THEN <<>>
    ELSE PathFrom(h, <<it>> \o path, h[it].parent)

get_path(h, self) == PathFrom(h, <<self>>, h[self].parent)

\* separator.join(parts)
RECURSIVE Join(_, _)
Join(parts, separator) ==
    IF parts = <<>> THEN ""
    ELSE IF Len(parts) = 1 THEN parts[1]
    ELSE parts[1] \o separator \o Join(Tail(parts), separator)

\* "if item.identification": the empty string is falsy
Truthy(str) == str # ""

\* a join that keeps the empty identifications
full_identification_of_all(h, self, separator) ==
    Join([i \in DOMAIN get_path(h, self) |->
            h[get_path(h, self)[i]].identification], separator)

\* CostItem.get_full_identification
get_full_identification(h, self, separator) ==
    LET path == get_path(h, self)
        ids == [i \in DOMAIN path |-> h[path[i]].identification]
    IN  Join(SelectSeq(ids, Truthy), separator)

\* a search that walks the children from the last to the first
RECURSIVE find_last_child_first(_, _, _)
RECURSIVE FindInReversed(_, _, _)
find_last_child_first(h, self, identification) ==
    IF h[self].identification = identification THEN self
    ELSE FindInReversed(h, h[self].children, identification)

FindInReversed(h, kids, identification) ==
    IF kids = <<>> THEN None
    ELSE LET found == find_last_child_first(h, kids[Len(kids)], identification)
         IN  IF found # None THEN found
             ELSE FindInReversed(h, SubSeq(kids, 1, Len(kids) - 1),
                                 identification)

\* CostItem.find_by_identification: self when its code is the one asked
\* for, else the first hit of a child, in list order; None without a hit
\* (a CostItem is always truthy, so "if found" is "found is not None")
RECURSIVE find_by_identification(_, _, _)
RECURSIVE FindInList(_, _, _)
find_by_identification(h, self, identification) ==
    IF h[self].identification = identification THEN self
    ELSE FindInList(h, h[self].children, identification)

\* the loop "for child in ...: found = child.find_by_identification(..)"
FindInList(h, kids, identification) ==
    IF kids = <<>> THEN None
    ELSE LET found == find_by_identification(h, Head(kids), identification)
         IN  IF found # None THEN found
             ELSE FindInList(h, Tail(kids), identification)

\* CostSchedule.find_by_identification: the same loop over the root items
schedule_find_by_identification(h, sc, identification) ==
    FindInList(h, sc.items, identification)

\* a walk that lists a child after its own descendants
RECURSIVE descendants_child_last(_, _)
RECURSIVE ExtendThenAppend(_, _)
descendants_child_last(h, self) == ExtendThenAppend(h, h[self].children)

ExtendThenAppend(h, kids) ==
    IF kids = <<>> THEN <<>>
    ELSE descendants_child_last(h, Head(kids)) \o <<Head(kids)>>
           \o ExtendThenAppend(h, Tail(kids))

\* CostItem.get_all_descendants: for each child, the child, then its own
\* descendants
RECURSIVE get_all_descendants(_, _)
RECURSIVE AppendAndExtend(_, _)
get_all_descendants(h, self) == AppendAndExtend(h, h[self].children)

\* the loop "for x in list: out.append(x); out.extend(x.get_all_descendants())"
AppendAndExtend(h, kids) ==
    IF kids = <<>> THEN <<>>
    ELSE <<Head(kids)>> \o get_all_descendants(h, Head(kids))
           \o AppendAndExtend(h, Tail(kids))

\* CostSchedule.get_all_items: the same loop over the root items
get_all_items(h, sc) == AppendAndExtend(h, sc.items)

\* CostSchedule.item_count: count += 1 + len(item.get_all_descendants())
RECURSIVE ItemCountFrom(_, _, _)
ItemCountFrom(h, list, i) ==
    IF i > Len(list) THEN 0
    ELSE 1 + Len(get_all_descendants(h, list[i])) + ItemCountFrom(h, list, i + 1)

item_count(h, sc) == ItemCountFrom(h, sc.items, 1)

\* the number of objects copy() constructs for n: one per path from n
RECURSIVE TreeSize(_, _)
RECURSIVE TreeSizeList(_, _, _)
TreeSize(h, n) == 1 + TreeSizeList(h, h[n].children, 1)
TreeSizeList(h, s, i) ==
    IF i > Len(s) THEN 0 ELSE TreeSize(h, s[i]) + TreeSizeList(h, s, i + 1)

RECURSIVE copy(_, _, _)
RECURSIVE CopyChildren(_, _, _, _, _)
\* a copy whose items keep the original's CostValue objects
copy_sharing_values(h, c, self) ==
    LET new_item == [NewCostItem(h[self].name, h[self].identification,
                                 h[self].is_text_only, h[self].cost_value)
                     EXCEPT !.html_name = h[self].html_name,
                            !.sfb_code = h[self].sfb_code,
                            !.description = h[self].description]
        h1 == Append(h, new_item)
    IN  CopyChildren(h1, c, self, Len(h1), 1)

\* a copy that drops the classification code
copy_without_codes(h, c, self) ==
    LET v == c[h[self].cost_value]
        c1 == Append(c, NewCostValue(v.unit_price, v.quantity,
                                     v.quantity_type))
        new_item == [NewCostItem(h[self].name, h[self].identification,
                                 h[self].is_text_only, Len(c1))
                     EXCEPT !.html_name = h[self].html_name,
                            !.description = h[self].description]
        h1 == Append(h, new_item)
    IN  CopyChildren(h1, c1, self, Len(h1), 1)

\* CostItem.copy: the heaps it leaves and the new item it returns
copy(h, c, self) ==
    LET v == c[h[self].cost_value]
        new_cost_value == NewCostValue(v.unit_price, v.quantity,
                                       v.quantity_type)
        c1 == Append(c, new_cost_value)
        new_item == [NewCostItem(h[self].name, h[self].identification,
                                 h[self].is_text_only, Len(c1))
                     EXCEPT !.html_name = h[self].html_name,
                            !.sfb_code = h[self].sfb_code,
                            !.description = h[self].description]
        h1 == Append(h, new_item)
    IN  CopyChildren(h1, c1, self, Len(h1), 1)

\* the loop of copy() over self.children, from position i on
CopyChildren(h, c, self, new_item, i) ==
    IF i > Len(h[self].children) THEN [h |-> h, c |-> c, out |-> new_item]
    ELSE LET child_copy == copy(h, c, h[self].children[i]) IN
         CopyChildren(add_child(child_copy.h, new_item, child_copy.out),
                      child_copy.c, self, new_item, i + 1)

\* ----------------------------------------------------------- CostSchedule
\* CostSchedule.subtotal
RECURSIVE schedule_subtotal_from(_, _, _, _, _)
schedule_subtotal_from(h, c, s, i, acc) ==
    IF i > Len(s) THEN Ok(acc)
    ELSE LET r == subtotal(h, c, s[i]) IN
         IF ~r.ok THEN Raised
         ELSE schedule_subtotal_from(h, c, s, i + 1, RAdd(acc, r.val))

schedule_subtotal(h, c, sc) == schedule_subtotal_from(h, c, sc.items, 1, Zero)

\* a VAT amount that reads the rate as a fraction, not as a percentage
vat_amount_fraction(h, c, sc) ==
    LET st == schedule_subtotal(h, c, sc) IN
    IF ~st.ok THEN Raised
    ELSE Ok(RMul(st.val, sc.vat_rate))

\* CostSchedule.vat_amount
vat_amount(h, c, sc) ==
    LET st == schedule_subtotal(h, c, sc) IN
    IF ~st.ok THEN Raised
    ELSE Ok(RMul(st.val, RDiv(sc.vat_rate, RInt(100))))

\* CostSchedule.total
schedule_total(h, c, sc) ==
    LET st == schedule_subtotal(h, c, sc)
        va == vat_amount(h, c, sc)
    IN  IF ~st.ok \/ ~va.ok THEN Raised ELSE Ok(RAdd(st.val, va.val))

\* CostSchedule.add_item
add_item(h, sc, it) ==
    LET h1 == [h EXCEPT ![it].schedule = TheSchedule]
        h2 == [h1 EXCEPT ![it].parent = None]
    IN  [h |-> h2, sc |-> [sc EXCEPT !.items = Append(@, it)]]

\* CostSchedule.insert_item
insert_item(h, sc, index, it) ==
    LET h1 == [h EXCEPT ![it].schedule = TheSchedule]
        h2 == [h1 EXCEPT ![it].parent = None]
    IN  [h |-> h2, sc |-> [sc EXCEPT !.items = PyInsert(@, index, it)]]

\* CostSchedule.remove_item
remove_item(h, c, sc, it) ==
    LET found == ListIndex(h, c, sc.items, it) IN
    IF found = -1 THEN [h |-> h, sc |-> sc, ret |-> RecursionError]
    ELSE IF found = 0 THEN [h |-> h, sc |-> sc, ret |-> "False"]
    ELSE
      LET h1 == [h EXCEPT ![it].schedule = None]
          i == ListIndex(h1, c, sc.items, it)
      IN
      IF i = -1 THEN [h |-> h1, sc |-> sc, ret |-> RecursionError]
      ELSE IF i = 0 THEN [h |-> h1, sc |-> sc, ret |-> ValueError]
      ELSE [h |-> h1, sc |-> [sc EXCEPT !.items = RemoveAt(@, i)],
            ret |-> "True"]

\* ------------------------------------------------------------ inputs
\* keyword arguments of a CostItem construction
Kw(nm, html, ident, sfb, desc, text, up, q, qt) ==
    [name |-> nm, html_name |-> html, identification |-> ident,
     sfb_code |-> sfb, description |-> desc, is_text_only |-> text,
     unit_price |-> up, quantity |-> q, quantity_type |-> qt]

\* items that differ in name only, all other fields at their defaults
TreeInputs ==
    {Kw(nm, "", "", "", "", FALSE, Zero, Zero, "COUNT") : nm \in {"A", "B"}}

\* a priced leaf (85 m3 at 12.50) and a text row that carries a quantity
\* and a price
TotalsInputs ==
    {Kw("Ontgraven", "", "01.01", "", "", FALSE, Rat(25, 2), RInt(85),
        "VOLUME"),
     Kw("Tekstregel", "", "", "", "", TRUE, RInt(5), RInt(10), "COUNT")}

\* a text row with every field set, and a priced leaf with the text
\* fields at their defaults
CopyInputs ==
    {Kw("Opmerking", "<b>Opmerking</b>", "01.05", "21.1", "omschrijving",
        TRUE, RInt(5), RInt(10), "VOLUME"),
     Kw("Post", "", "", "", "", FALSE, RInt(3), RInt(2), "COUNT")}

\* rows that differ in their code: a chapter code, a full code, no code
QueryInputs ==
    {Kw("Rij", "", ident, "", "", FALSE, Zero, Zero, "COUNT") :
       ident \in {"01", "01.05", ""}}
\* separators given to get_full_identification
Separators == {".", "-"}
\* codes looked up: the ones the rows carry and one that no row carries
Codes == {"01", "01.05", "", "99"}
\* values typed into the quantity and unit-price cells
Quantities == {RInt(2)}
UnitPrices == {RInt(3)}
\* VAT percentages set on the schedule
VatRates == {RInt(0), RInt(9)}

Items == 1..Len(item)

\* the rows the table shows: everything reachable from the root list
Visible == UNION {Subtree(item, r) : r \in Range(sched.items)}

\* attaching child under self closes no cycle (the caller's obligation:
\* add_child itself performs no check)
NoCycle(self, child) == self \notin Subtree(item, child)

Pad2Digits == <<"01", "02", "03", "04", "05", "06", "07", "08", "09">>
\* f"{n:02d}"
Pad2(n) == IF n >= 1 /\ n <= 9 THEN Pad2Digits[n] ELSE ToString(n)

\* the identifications and the name given to create_chapter
ChapterCodes == {"", "07"}
ChapterName == "Hoofdstuk"

\* a chapter numbered by the length of the list that already holds it
create_chapter_numbered_late(h, c, sc, name, identification, description) ==
    LET r == add_item(Append(h, [NewCostItem(name,
                                   IF Truthy(identification)
                                   THEN identification
                                   ELSE Pad2(Len(sc.items) + 2),
                                   FALSE, Len(c) + 1)
                                 EXCEPT !.description = description]),
                      sc, Len(h) + 1)
    IN  [h |-> r.h, c |-> Append(c, NewCostValue(Zero, Zero, "COUNT")),
         sc |-> r.sc, out |-> Len(h) + 1]

\* "if not identification: identification = f'{len(self.items) + 1:02d}'"
chapter_code(sc, identification) ==
    IF Truthy(identification) THEN identification
    ELSE Pad2(Len(sc.items) + 1)

\* CostSchedule.create_chapter: a new CostItem with the code, handed to
\* add_item
create_chapter(h, c, sc, name, identification, description) ==
    LET r == add_item(Append(h, [NewCostItem(name,
                                   chapter_code(sc, identification),
                                   FALSE, Len(c) + 1)
                                 EXCEPT !.description = description]),
                      sc, Len(h) + 1)
    IN  [h |-> r.h, c |-> Append(c, NewCostValue(Zero, Zero, "COUNT")),
         sc |-> r.sc, out |-> Len(h) + 1]

\* ------------------------------------------- calls on the model classes
\* CostItem(name=.., html_name=.., identification=.., sfb_code=..,
\* description=.., is_text_only=.., cost_value=CostValue(unit_price=..,
\* quantity=.., quantity_type=..)): construction of a detached item from
\* the keyword arguments k
NewItem(k) ==
    /\ Len(item) < MaxNew
    /\ cval' = Append(cval, NewCostValue(k.unit_price, k.quantity,
                                         k.quantity_type))
    /\ item' = Append(item,
                      [NewCostItem(k.name, k.identification, k.is_text_only,
                                   Len(cval) + 1)
                       EXCEPT !.html_name = k.html_name,
                              !.sfb_code = k.sfb_code,
                              !.description = k.description])
    /\ last' = [Called("CostItem", None, None, 0, "None", Len(item) + 1)
                EXCEPT !.n = last.n]
    /\ UNCHANGED <<sched, clipboard, ifc, is_modified, app>>

AddChild(self, child) ==
    /\ CanCall
    /\ NoCycle(self, child)
    /\ Len(item[self].children) < MaxLen
    /\ item' = add_child(item, self, child)
    /\ last' = Called("add_child", self, child, 0, "None", child)
    /\ UNCHANGED <<cval, sched, clipboard, ifc, is_modified, app>>

InsertChild(self, index, child) ==
    /\ CanCall
    /\ NoCycle(self, child)
    /\ Len(item[self].children) < MaxLen
    /\ item' = insert_child(item, self, index, child)
    /\ last' = Called("insert_child", self, child, index, "None", child)
    /\ UNCHANGED <<cval, sched, clipboard, ifc, is_modified, app>>

RemoveChild(self, child) ==
    LET r == remove_child(item, cval, self, child) IN
    /\ CanCall
    /\ item' = r.h
    /\ last' = Called("remove_child", self, child, 0, r.ret, None)
    /\ UNCHANGED <<cval, sched, clipboard, ifc, is_modified, app>>

MoveUp(self) ==
    LET r == move_up(item, cval, self) IN
    /\ CanCall
    /\ item' = r.h
    /\ last' = Called("move_up", self, None, 0, r.ret, None)
    /\ UNCHANGED <<cval, sched, clipboard, ifc, is_modified, app>>

MoveDown(self) ==
    LET r == move_down(item, cval, self) IN
    /\ CanCall
    /\ item' = r.h
    /\ last' = Called("move_down", self, None, 0, r.ret, None)
    /\ UNCHANGED <<cval, sched, clipboard, ifc, is_modified, app>>

\* y = self.copy() while the heap holds at most cap items
CopyUpTo(self, cap) ==
    /\ CanCall
    /\ Len(item) + TreeSize(item, self) <= cap
    /\ LET r == copy(item, cval, self) IN
       /\ item' = r.h
       /\ cval' = r.c
       /\ last' = [Called("copy", self, None, 0, "None", r.out)
                   EXCEPT !.cp = <<self, r.out>>]
    /\ UNCHANGED <<sched, clipboard, ifc, is_modified, app>>

Copy(self) == CopyUpTo(self, MaxNodes)

AddItem(it) ==
    /\ CanCall
    /\ Len(sched.items) < MaxLen
    /\ LET r == add_item(item, sched, it) IN
       /\ item' = r.h
       /\ sched' = r.sc
    /\ last' = Called("add_item", None, it, 0, "None", it)
    /\ UNCHANGED <<cval, clipboard, ifc, is_modified, app>>

\* schedule.create_chapter(name, identification); last.arg holds the
\* identification given
CreateChapter(name, identification) ==
    /\ CanCall
    /\ Len(sched.items) < MaxLen
    /\ Len(item) < MaxNodes
    /\ LET r == create_chapter(item, cval, sched, name, identification, "") IN
       /\ item' = r.h
       /\ cval' = r.c
       /\ sched' = r.sc
       /\ last' = Called("create_chapter", None, identification, 0, "None",
                         r.out)
    /\ UNCHANGED <<clipboard, ifc, is_modified, app>>

InsertItem(index, it) ==
    /\ CanCall
    /\ Len(sched.items) < MaxLen
    /\ LET r == insert_item(item, sched, index, it) IN
       /\ item' = r.h
       /\ sched' = r.sc
    /\ last' = Called("insert_item", None, it, index, "None", it)
    /\ UNCHANGED <<cval, clipboard, ifc, is_modified, app>>

RemoveItem(it) ==
    LET r == remove_item(item, cval, sched, it) IN
    /\ CanCall
    /\ item' = r.h
    /\ sched' = r.sc
    /\ last' = Called("remove_item", None, it, 0, r.ret, None)
    /\ UNCHANGED <<cval, clipboard, ifc, is_modified, app>>

\* item.quantity = q (the property setter writes the owned CostValue)
SetQuantity(self, q) ==
    /\ CanCall
    /\ cval' = [cval EXCEPT ![item[self].cost_value].quantity = q]
    /\ last' = Called("set_quantity", self, None, 0, "None", None)
    /\ UNCHANGED <<item, sched, clipboard, ifc, is_modified, app>>

\* item.unit_price = up
SetUnitPrice(self, up) ==
    /\ CanCall
    /\ cval' = [cval EXCEPT ![item[self].cost_value].unit_price = up]
    /\ last' = Called("set_unit_price", self, None, 0, "None", None)
    /\ UNCHANGED <<item, sched, clipboard, ifc, is_modified, app>>

\* item.is_text_only = b
SetTextOnly(self, b) ==
    /\ CanCall
    /\ item' = [item EXCEPT ![self].is_text_only = b]
    /\ last' = Called("set_is_text_only", self, None, 0, "None", None)
    /\ UNCHANGED <<cval, sched, clipboard, ifc, is_modified, app>>

\* schedule.vat_rate = r
SetVatRate(r) ==
    /\ CanCall
    /\ sched' = [sched EXCEPT !.vat_rate = r]
    /\ last' = Called("set_vat_rate", None, None, 0, "None", None)
    /\ UNCHANGED <<item, cval, clipboard, ifc, is_modified, app>>

\* ------------------------------------------------- persisted records
\* cost.add_cost_item through CostAPI.add_cost_item: a new IfcCostItem
\* under the schedule (nest = None) or nested under record nest; Name and
\* Identification are written only when not empty
NewIfcItem(nest, nm, ident) ==
    [Name |-> nm, Identification |-> ident, Description |-> "",
     nest |-> nest, SFB_Code |-> "", HtmlName |-> "", IsTextOnly |-> ""]

\* an add_cost_item without the check for a parent
add_cost_item_unchecked(f, cs, ci, name, identification, nest) ==
    [f |-> Append(f, NewIfcItem(nest, name, identification)),
     ret |-> "None", out |-> Len(f) + 1]

\* CostAPI.add_cost_item: ValueError when neither parent is given (IFC
\* entities are truthy, None is not), else one new record, assigned to the
\* schedule or nested under the record as cost.add_cost_item decides (nest)
add_cost_item(f, cost_schedule, cost_item, name, identification, nest) ==
    IF cost_schedule = None /\ cost_item = None
    THEN [f |-> f, ret |-> ValueError, out |-> None]
    ELSE [f |-> Append(f, NewIfcItem(nest, name, identification)),
          ret |-> "None", out |-> Len(f) + 1]

\* where cost.add_cost_item may put the record: under the schedule (None)
\* when only a schedule is given, under the record when only a record is
\* given, under either when both are given
Nests(cost_schedule, cost_item) ==
    IF cost_schedule = None THEN {cost_item}
    ELSE IF cost_item = None THEN {None}
    ELSE {None, cost_item}

\* names and identifications given to CostAPI.add_cost_item
ApiNames == {"", "Post"}
ApiCodes == {"", "01"}

\* cost_api.add_cost_item(cost_schedule=.., cost_item=.., name=..,
\* identification=..); last.self holds cost_schedule, last.arg cost_item
ApiAddCostItem(cost_schedule, cost_item, name, identification) ==
    /\ CanCall
    /\ \E nest \in Nests(cost_schedule, cost_item) :
         LET r == add_cost_item(ifc, cost_schedule, cost_item, name,
                                identification, nest)
         IN  /\ ifc' = r.f
             /\ last' = Called("add_cost_item", cost_schedule, cost_item, 0,
                               r.ret, r.out)
    /\ UNCHANGED <<item, cval, sched, clipboard, is_modified, app>>

\* CostAPI.set_is_text_only
set_is_text_only(f, rid, b) ==
    [f EXCEPT ![rid].IsTextOnly = IF b THEN "true" ELSE "false"]

\* ------------------------------------------------ controller handlers
\* the walk "while root_item.parent: root_item = root_item.parent";
\* None when the parent chain is cyclic and the walk never ends
RECURSIVE RootWalk(_, _, _)
RootWalk(h, n, seen) ==
    IF h[n].parent = None THEN n
    ELSE IF h[n].parent \in seen THEN None
    ELSE RootWalk(h, h[n].parent, seen \cup {h[n].parent})

RootOf(h, n) == RootWalk(h, n, {n})

\* the renumbering loop of _add_chapter over schedule.items
RECURSIVE Renumber(_, _, _)
Renumber(h, s, i) ==
    IF i > Len(s) THEN h
    ELSE Renumber([h EXCEPT ![s[i]].identification = Pad2(i)], s, i + 1)

\* _add_chapter, the IFC part: the chapter gets its record under the
\* schedule and the file is marked modified
persist_chapter(h, c, sc, f, chapter) ==
    [h |-> [h EXCEPT ![chapter].ifc_cost_item = Len(f) + 1],
     c |-> c, sc |-> sc,
     f |-> Append(f, NewIfcItem(None, h[chapter].name,
                                h[chapter].identification)),
     mod |-> TRUE, ret |-> "None", out |-> chapter]

\* _add_chapter from insert_index on: the new chapter goes into
\* schedule.items at insert_index and all root items are renumbered
insert_chapter(h, c, sc, f, insert_index) ==
    LET chapter == Len(h) + 1
        h1 == Append(h, [NewCostItem("Nieuw Hoofdstuk",
                                     Pad2(insert_index + 1), FALSE,
                                     Len(c) + 1)
                         EXCEPT !.schedule = TheSchedule])
        sc1 == [sc EXCEPT !.items = PyInsert(@, insert_index, chapter)]
    IN  persist_chapter(Renumber(h1, sc1.items, 1),
                        Append(c, NewCostValue(Zero, Zero, "COUNT")),
                        sc1, f, chapter)

\* MainWindow._add_chapter with the table selection sel (None: no row
\* selected): the state it leaves, or the exception it ends in. found is
\* the position of the selection's root in schedule.items (0: none)
add_chapter(h, c, sc, f, sel) ==
    LET found == IF sel = None THEN 0
                 ELSE ListIndex(h, c, sc.items, RootOf(h, sel))
    IN  IF found = -1
        THEN [h |-> h, c |-> c, sc |-> sc, f |-> f, mod |-> FALSE,
              ret |-> RecursionError, out |-> None]
        ELSE insert_chapter(h, c, sc, f,
                            IF found = 0 THEN Len(sc.items) ELSE found)

\* the IFC part of _add_cost_item, _add_text_row and _paste_item: when the
\* parent has a record, the new row gets one nested under it
persist_row(h, c, sc, f, parent, new, text) ==
    IF h[parent].ifc_cost_item = None
    THEN [h |-> h, c |-> c, sc |-> sc, f |-> f, mod |-> TRUE,
          ret |-> "None", out |-> new, parent |-> parent]
    ELSE [h |-> [h EXCEPT ![new].ifc_cost_item = Len(f) + 1],
          c |-> c, sc |-> sc,
          f |-> IF text
                THEN set_is_text_only(
                       Append(f, NewIfcItem(h[parent].ifc_cost_item,
                                            h[new].name,
                                            h[new].identification)),
                       Len(f) + 1, TRUE)
                ELSE Append(f, NewIfcItem(h[parent].ifc_cost_item,
                                          h[new].name,
                                          h[new].identification)),
          mod |-> TRUE, ret |-> "None", out |-> new, parent |-> parent]

\* the new row of _add_cost_item / _add_text_row, constructed and attached
\* under parent
attach_row(h, c, sc, f, parent, nm, numbered, text) ==
    LET ident == IF numbered THEN Pad2(Len(h[parent].children) + 1) ELSE ""
        h1 == Append(h, NewCostItem(nm, ident, text, Len(c) + 1))
    IN  persist_row(add_child(h1, parent, Len(h) + 1),
                    Append(c, NewCostValue(Zero, Zero, "COUNT")),
                    sc, f, parent, Len(h) + 1, text)

\* the choice of parent: the selected row, else the first chapter
row_parent(first, sel, nm, numbered, text) ==
    attach_row(first.h, first.c, first.sc, first.f,
               IF sel # None THEN sel ELSE first.sc.items[1],
               nm, numbered, text)

\* the part _add_cost_item and _add_text_row share: a new row named nm
\* under the selected row, else under the first chapter, else under a
\* chapter made first
add_row(h, c, sc, f, sel, nm, numbered, text) ==
    row_parent(IF sel = None /\ Len(sc.items) = 0
               THEN add_chapter(h, c, sc, f, None)
               ELSE [h |-> h, c |-> c, sc |-> sc, f |-> f],
               sel, nm, numbered, text)

\* the number of rows add_row constructs
RowsAdded(sel) == IF sel = None /\ Len(sched.items) = 0 THEN 2 ELSE 1

\* the row a handler without selection attaches to
TargetOf(sel) ==
    IF sel # None THEN sel
    ELSE IF Len(sched.items) > 0 THEN sched.items[1] ELSE None

\* STABU_TO_SFB_MAPPING, the entries of the codes the handlers give out
STABU_TO_SFB_MAPPING ==
    ("01" :> "01") @@ ("02" :> "03") @@ ("03" :> "04") @@ ("04" :> "02")
        @@ ("05" :> "00")

\* get_sfb_for_stabu; every code in use is its own two-character prefix
get_sfb_for_stabu(stabu_code) ==
    IF ~Truthy(stabu_code) THEN ""
    ELSE IF stabu_code \in DOMAIN STABU_TO_SFB_MAPPING
         THEN STABU_TO_SFB_MAPPING[stabu_code]
    ELSE ""

\* CostTableModel.set_schedule: the rows are rebuilt from the schedule, and
\* _add_item_to_model stores an SFB code in every shown item that has a
\* STABU code and no SFB code
set_schedule(h, sc) ==
    [n \in DOMAIN h |->
        IF /\ n \in Range(get_all_items(h, sc))
           /\ ~Truthy(h[n].sfb_code)
           /\ Truthy(h[n].identification)
        THEN [h[n] EXCEPT
                 !.sfb_code = get_sfb_for_stabu(h[n].identification)]
        ELSE h[n]]

\* CostTableView.refresh at the end of a handler that returned ret: a
\* handler that raised has not come to it
refresh(h, sc, ret) ==
    IF ret \in {RecursionError, ValueError} THEN h ELSE set_schedule(h, sc)

Selections == Visible \cup {None}

\* the codes and the chapter names of the opened documents
SortCodes == {"", "01", "02"}
ChapterNames == {"Fundering", "Ruwbouw"}

\* what a handler that returned r leaves behind
HandlerEffect(r, op, self, sel) ==
    /\ item' = refresh(r.h, r.sc, r.ret)
    /\ cval' = r.c
    /\ sched' = r.sc
    /\ ifc' = r.f
    /\ is_modified' = (is_modified \/ r.mod)
    /\ last' = Called(op, self, sel, 0, r.ret, r.out)

\* a handler that attached a row under r.parent
RowEffect(r, op, sel) == HandlerEffect(r, op, r.parent, sel)

\* MainWindow._add_chapter
AddChapterHandler(sel) ==
    /\ CanCall
    /\ Len(item) < MaxNodes
    /\ Len(sched.items) < MaxChapters
    /\ sel # None => RootOf(item, sel) # None
    /\ HandlerEffect(add_chapter(item, cval, sched, ifc, sel),
                     "_add_chapter", None, sel)
    /\ UNCHANGED <<clipboard, app>>

\* MainWindow._add_cost_item
AddCostItemHandler(sel) ==
    /\ CanCall
    /\ Len(item) + RowsAdded(sel) <= MaxNodes
    /\ TargetOf(sel) # None => Len(item[TargetOf(sel)].children) < MaxLen
    /\ RowEffect(add_row(item, cval, sched, ifc, sel, "Nieuwe Post",
                         TRUE, FALSE),
                 "_add_cost_item", sel)
    /\ UNCHANGED <<clipboard, app>>

\* MainWindow._add_text_row
AddTextRowHandler(sel) ==
    /\ CanCall
    /\ Len(item) + RowsAdded(sel) <= MaxNodes
    /\ TargetOf(sel) # None => Len(item[TargetOf(sel)].children) < MaxLen
    /\ RowEffect(add_row(item, cval, sched, ifc, sel, "Tekstregel",
                         FALSE, TRUE),
                 "_add_text_row", sel)
    /\ UNCHANGED <<clipboard, app>>

\* MainWindow._cut_item
CutItemHandler(sel) ==
    /\ CanCall
    /\ sel # None
    /\ LET viaParent == item[sel].parent # None
           rc == remove_child(item, cval, item[sel].parent, sel)
           ri == remove_item(item, cval, sched, sel)
           ret == IF viaParent THEN rc.ret ELSE ri.ret
       IN
       /\ clipboard' = sel
       /\ item' = refresh(IF viaParent THEN rc.h ELSE ri.h,
                          IF viaParent THEN sched ELSE ri.sc, ret)
       /\ sched' = IF viaParent THEN sched ELSE ri.sc
       /\ is_modified' = (is_modified \/ ret \in {"True", "False"})
       /\ last' = Called("_cut_item", None, sel, 0, ret, None)
    /\ UNCHANGED <<cval, ifc, app>>

\* MainWindow._copy_item
CopyItemHandler(sel) ==
    /\ CanCall
    /\ sel # None
    /\ Len(item) + TreeSize(item, sel) <= MaxNodes
    /\ LET r == copy(item, cval, sel) IN
       /\ item' = r.h
       /\ cval' = r.c
       /\ clipboard' = r.out
       /\ last' = Called("_copy_item", sel, sel, 0, "None", r.out)
    /\ UNCHANGED <<sched, ifc, is_modified, app>>

\* the parent _paste_item chooses; None when there is no valid target
PasteParent(h, sc, sel) ==
    IF sel # None /\ is_chapter(h, sel) THEN sel
    ELSE IF sel # None /\ h[sel].parent # None THEN h[sel].parent
    ELSE IF Len(sc.items) > 0 THEN sc.items[1]
    ELSE None

\* _paste_item after the copy r of the clipboard was made: the copy is
\* renumbered and attached under parent
paste_under(r, sc, f, parent) ==
    persist_row(add_child([r.h EXCEPT ![r.out].identification =
                               Pad2(Len(r.h[parent].children) + 1)],
                          parent, r.out),
                r.c, sc, f, parent, r.out, FALSE)

\* MainWindow._paste_item
PasteItemHandler(sel) ==
    /\ CanCall
    /\ clipboard # None
    /\ PasteParent(item, sched, sel) # None
    /\ Len(item) + TreeSize(item, clipboard) <= MaxNodes
    /\ Len(item[PasteParent(item, sched, sel)].children) < MaxLen
    /\ RowEffect(paste_under(copy(item, cval, clipboard), sched, ifc,
                             PasteParent(item, sched, sel)),
                 "_paste_item", sel)
    /\ UNCHANGED <<clipboard, app>>

\* a synchronisation that persists the full code of the row as its code
sync_item_with_full_code(f, h, n) ==
    IF h[n].ifc_cost_item = None THEN f
    ELSE [f EXCEPT ![h[n].ifc_cost_item] =
            [@ EXCEPT !.Name = h[n].name,
                      !.Identification = get_full_identification(h, n, "."),
                      !.Description = h[n].description]]

\* MainWindow._sync_item_to_ifc: nothing for an item without record; else
\* Name, Identification and Description are written, and the SFB code, the
\* HTML name and the text-only marker only when they are truthy
sync_item_to_ifc(f, h, n) ==
    IF h[n].ifc_cost_item = None THEN f
    ELSE [f EXCEPT ![h[n].ifc_cost_item] =
            [@ EXCEPT !.Name = h[n].name,
                      !.Identification = h[n].identification,
                      !.Description = h[n].description,
                      !.SFB_Code = IF Truthy(h[n].sfb_code)
                                   THEN h[n].sfb_code ELSE @,
                      !.HtmlName = IF Truthy(h[n].html_name)
                                   THEN h[n].html_name ELSE @,
                      !.IsTextOnly = IF h[n].is_text_only THEN "true" ELSE @]]

\* MainWindow._sync_schedule_to_ifc: the loop over get_all_items() from
\* position i on
RECURSIVE sync_schedule_to_ifc(_, _, _, _)
sync_schedule_to_ifc(f, h, all_items, i) ==
    IF i > Len(all_items) THEN f
    ELSE sync_schedule_to_ifc(sync_item_to_ifc(f, h, all_items[i]), h,
                              all_items, i + 1)

\* MainWindow._do_save with a path: the tree is synchronised into the file
\* and IFCHandler.save_file clears the dirty flag
DoSave ==
    /\ CanCall
    /\ ifc' = sync_schedule_to_ifc(ifc, item, get_all_items(item, sched), 1)
    /\ is_modified' = FALSE
    /\ last' = Called("_do_save", None, None, 0, "None", None)
    /\ UNCHANGED <<item, cval, sched, clipboard, app>>

\* CostAPI.get_sfb_code, get_html_name and get_is_text_only on record rid
get_sfb_code(f, rid) == f[rid].SFB_Code
get_html_name(f, rid) == f[rid].HtmlName
get_is_text_only(f, rid) == f[rid].IsTextOnly = "true"

\* a loaded document of one row with a record; the row's auxiliary fields
\* and the ones persisted earlier take any values, empty ones included
InitSync ==
    /\ \E sfb \in {"", "21.1"}, html \in {"", "<b>Post</b>"}, text \in BOOLEAN :
         item = <<[NewCostItem("Post", "01", text, 1)
                   EXCEPT !.sfb_code = sfb, !.html_name = html,
                          !.schedule = TheSchedule, !.ifc_cost_item = 1]>>
    /\ cval = <<NewCostValue(Zero, Zero, "COUNT")>>
    /\ sched = [items |-> <<1>>, vat_rate |-> RInt(21)]
    /\ clipboard = None
    /\ \E sfb \in {"", "47.2"}, html \in {"", "<i>Post</i>"},
          text \in {"", "true", "false"} :
         ifc = <<[NewIfcItem(None, "Post", "01")
                  EXCEPT !.SFB_Code = sfb, !.HtmlName = html,
                         !.IsTextOnly = text]>>
    /\ is_modified = FALSE
    /\ app = NewApp
    /\ last = NoCall

\* self._sync_item_to_ifc(item)
SyncItem(n) ==
    /\ CanCall
    /\ ifc' = sync_item_to_ifc(ifc, item, n)
    /\ last' = Called("_sync_item_to_ifc", n, None, 0, "None", None)
    /\ UNCHANGED <<item, cval, sched, clipboard, is_modified, app>>

NextSync == \E n \in Items : SyncItem(n)

SpecSync == InitSync /\ [][NextSync]_vars

\* ------------------------------------------------- change notifications
\* the guard flag of a handler: getattr(self, '_updating_item', False) and
\* getattr(self, '_handling_data_change', False)
guard_flag(a, fn) ==
    IF fn = "_on_item_changed" THEN a.updating_item
    ELSE a.handling_data_change

set_guard_flag(a, fn, v) ==
    IF fn = "_on_item_changed" THEN [a EXCEPT !.updating_item = v]
    ELSE [a EXCEPT !.handling_data_change = v]

\* an entry that does not look at the guard flag
enter_unguarded(a, fn, x) ==
    [set_guard_flag(a, fn, TRUE) EXCEPT
        !.stack = Append(@, [fn |-> fn, pc |-> "body", arg |-> x])]

\* the head of both handlers: return at once when the flag is set, else set
\* it and go into the try block
enter_handler(a, fn, x) ==
    IF guard_flag(a, fn) THEN a
    ELSE [set_guard_flag(a, fn, TRUE) EXCEPT
             !.stack = Append(@, [fn |-> fn, pc |-> "body", arg |-> x])]

\* the finally clause of the handler on top of the stack, on return and on
\* an exception alike: the flag is reset and the call is over
leave_handler(a) ==
    [set_guard_flag(a, a.stack[Len(a.stack)].fn, FALSE) EXCEPT
        !.stack = SubSeq(@, 1, Len(@) - 1)]

\* the handler call in progress has name fn and is at pc
TopAt(fn, pc) ==
    /\ app.stack # <<>>
    /\ app.stack[Len(app.stack)].fn = fn
    /\ app.stack[Len(app.stack)].pc = pc

TopArg == app.stack[Len(app.stack)].arg

\* the handler in progress moves on to pc
goto(a, pc) == [a EXCEPT !.stack[Len(a.stack)].pc = pc]

\* a call of MainWindow._on_item_changed(x), from the idle event loop or
\* from inside a handler that is running
ItemChanged(x) ==
    /\ CanCall
    /\ app' = enter_handler(app, "_on_item_changed", x)
    /\ last' = Called("_on_item_changed", None, x, 0,
                      IF guard_flag(app, "_on_item_changed")
                      THEN "returned" ELSE "entered", None)
    /\ UNCHANGED <<item, cval, sched, clipboard, ifc, is_modified>>

\* _on_item_changed, the writes to the record of the item
ItemChangedWrite ==
    /\ TopAt("_on_item_changed", "body")
    /\ ifc' = sync_item_to_ifc(ifc, item, TopArg)
    /\ app' = goto(app, "written")
    /\ UNCHANGED <<item, cval, sched, clipboard, is_modified, last>>

\* _on_item_changed, self._ifc_handler.mark_modified()
ItemChangedMark ==
    /\ TopAt("_on_item_changed", "written")
    /\ is_modified' = TRUE
    /\ app' = goto(app, "marked")
    /\ UNCHANGED <<item, cval, sched, clipboard, ifc, last>>

\* _on_item_changed, the end of the try block
ItemChangedReturn ==
    /\ TopAt("_on_item_changed", "marked")
    /\ app' = leave_handler(app)
    /\ UNCHANGED <<item, cval, sched, clipboard, ifc, is_modified, last>>

\* the model's dataChanged signal calls CostTableView._on_data_changed; x is
\* what get_item(topLeft) will give: a row, or None for a separator
DataChanged(x) ==
    /\ CanCall
    /\ app' = enter_handler(app, "_on_data_changed", x)
    /\ last' = Called("_on_data_changed", None, x, 0,
                      IF guard_flag(app, "_on_data_changed")
                      THEN "returned" ELSE "entered", None)
    /\ UNCHANGED <<item, cval, sched, clipboard, ifc, is_modified>>

\* _on_data_changed, "if item: self.itemChanged.emit(item)": the connected
\* slot _on_item_changed is called
DataChangedEmit ==
    /\ TopAt("_on_data_changed", "body")
    /\ IF TopArg = None
       THEN app' = goto(app, "emitted") /\ UNCHANGED last
       ELSE /\ app' = enter_handler(goto(app, "emitted"),
                                    "_on_item_changed", TopArg)
            /\ last' = Called("_on_item_changed", None, TopArg, 0,
                              IF guard_flag(app, "_on_item_changed")
                              THEN "returned" ELSE "entered", None)
    /\ UNCHANGED <<item, cval, sched, clipboard, ifc, is_modified>>

\* _on_data_changed, the end of the try block
DataChangedReturn ==
    /\ TopAt("_on_data_changed", "emitted")
    /\ app' = leave_handler(app)
    /\ UNCHANGED <<item, cval, sched, clipboard, ifc, is_modified, last>>

\* the body of the handler in progress raises: its finally clause runs
HandlerRaises ==
    /\ app.stack # <<>>
    /\ app' = leave_handler(app)
    /\ UNCHANGED <<item, cval, sched, clipboard, ifc, is_modified, last>>

\* a saved document of two rows: row 1 was renamed after the save and has a
\* record, row 2 has none
InitGuard ==
    /\ item = <<[NewCostItem("Fundering beton", "01", FALSE, 1)
                 EXCEPT !.schedule = TheSchedule, !.ifc_cost_item = 1],
                [NewCostItem("Post", "02", FALSE, 2)
                 EXCEPT !.schedule = TheSchedule]>>
    /\ cval = <<NewCostValue(Zero, Zero, "COUNT"),
                NewCostValue(Zero, Zero, "COUNT")>>
    /\ sched = [items |-> <<1, 2>>, vat_rate |-> RInt(21)]
    /\ clipboard = None
    /\ ifc = <<NewIfcItem(None, "Fundering", "01")>>
    /\ is_modified = FALSE
    /\ app = [NewApp EXCEPT !.file_path = <<"begroting.ifc">>]
    /\ last = NoCall

NextGuard ==
    \/ \E x \in Items : ItemChanged(x)
    \/ ItemChangedWrite
    \/ ItemChangedMark
    \/ ItemChangedReturn
    \/ \E x \in Items \cup {None} : DataChanged(x)
    \/ DataChangedEmit
    \/ DataChangedReturn
    \/ HandlerRaises

SpecGuard == InitGuard /\ [][NextGuard]_vars

\* ------------------------------------------------- IFCHandler
FileNotFoundError == "FileNotFoundError"
OSError == "OSError"

\* the paths given to open_file and save_file; "" stands for no path (None
\* and the empty string are both falsy)
Paths == {"", "begroting.ifc", "kopie.txt"}

\* Path.with_suffix(".ifc") when the suffix, lower-cased, is not ".ifc"
with_ifc_suffix(path) == IF path = "kopie.txt" THEN "kopie.ifc" ELSE path

\* a save_file that drops the dirty flag before it looks for a path
save_file_clearing_first(a, m, file_path, written) ==
    IF ~a.ifc_file THEN [a |-> a, m |-> m, ret |-> ValueError]
    ELSE IF ~Truthy(file_path) /\ a.file_path = <<>>
         THEN [a |-> a, m |-> FALSE, ret |-> ValueError]
    ELSE LET path == with_ifc_suffix(IF Truthy(file_path) THEN file_path
                                     ELSE a.file_path[1])
         IN  IF written
             THEN [a |-> [a EXCEPT !.file_path = <<path>>], m |-> FALSE,
                   ret |-> path]
             ELSE [a |-> [a EXCEPT !.file_path = <<path>>], m |-> m,
                   ret |-> OSError]

\* IFCHandler.save_file on handler fields a and dirty flag m; written tells
\* whether ifc_file.write succeeds
save_file(a, m, file_path, written) ==
    IF ~a.ifc_file THEN [a |-> a, m |-> m, ret |-> ValueError]
    ELSE IF ~Truthy(file_path) /\ a.file_path = <<>>
         THEN [a |-> a, m |-> m, ret |-> ValueError]
    ELSE LET path == with_ifc_suffix(IF Truthy(file_path) THEN file_path
                                     ELSE a.file_path[1])
         IN  IF written
             THEN [a |-> [a EXCEPT !.file_path = <<path>>], m |-> FALSE,
                   ret |-> path]
             ELSE [a |-> [a EXCEPT !.file_path = <<path>>], m |-> m,
                   ret |-> OSError]

\* IFCHandler.new_file
NewFile ==
    /\ CanCall
    /\ app' = [app EXCEPT !.ifc_file = TRUE, !.file_path = <<>>]
    /\ is_modified' = TRUE
    /\ ifc' = <<>>
    /\ last' = Called("new_file", None, None, 0, "file", None)
    /\ UNCHANGED <<item, cval, sched, clipboard>>

\* IFCHandler.open_file(file_path); exists and readable tell whether the
\* path exists and whether ifcopenshell.open succeeds on it
OpenFile(file_path, exists, readable) ==
    /\ CanCall
    /\ IF exists /\ readable
       THEN /\ app' = [app EXCEPT !.ifc_file = TRUE,
                                  !.file_path = <<file_path>>]
            /\ is_modified' = FALSE
            /\ ifc' = <<>>
       ELSE UNCHANGED <<app, is_modified, ifc>>
    /\ last' = Called("open_file", None, file_path, 0,
                      IF ~exists THEN FileNotFoundError
                      ELSE IF ~readable THEN OSError ELSE "file", None)
    /\ UNCHANGED <<item, cval, sched, clipboard>>

\* IFCHandler.mark_modified
MarkModified ==
    /\ CanCall
    /\ is_modified' = TRUE
    /\ last' = Called("mark_modified", None, None, 0, "None", None)
    /\ UNCHANGED <<item, cval, sched, clipboard, ifc, app>>

\* IFCHandler.save_file(file_path)
SaveFile(file_path, written) ==
    /\ CanCall
    /\ LET r == save_file(app, is_modified, file_path, written) IN
       /\ app' = r.a
       /\ is_modified' = r.m
       /\ last' = Called("save_file", None, file_path, 0, r.ret, None)
    /\ UNCHANGED <<item, cval, sched, clipboard, ifc>>

\* IFCHandler.close_file
CloseFile ==
    /\ CanCall
    /\ app' = [app EXCEPT !.ifc_file = FALSE, !.file_path = <<>>]
    /\ is_modified' = FALSE
    /\ ifc' = <<>>
    /\ last' = Called("close_file", None, None, 0, "None", None)
    /\ UNCHANGED <<item, cval, sched, clipboard>>

\* IFCHandler.__init__: no file, no path, not modified
InitFile ==
    /\ item = <<>>
    /\ cval = <<>>
    /\ sched = [items |-> <<>>, vat_rate |-> RInt(21)]
    /\ clipboard = None
    /\ ifc = <<>>
    /\ is_modified = FALSE
    /\ app = [NewApp EXCEPT !.ifc_file = FALSE]
    /\ last = NoCall

NextFile ==
    \/ NewFile
    \/ \E file_path \in Paths \ {""}, exists \in BOOLEAN, readable \in BOOLEAN :
          OpenFile(file_path, exists, readable)
    \/ MarkModified
    \/ \E file_path \in Paths, written \in BOOLEAN : SaveFile(file_path, written)
    \/ CloseFile

SpecFile == InitFile /\ [][NextFile]_vars

\* --------------------------------------------------------- specifications
\* the model classes driven by an arbitrary caller
NextTree ==
    \/ \E k \in TreeInputs : NewItem(k)
    \/ \E p \in Items, x \in Items : AddChild(p, x)
    \/ \E p \in Items, x \in Items :
          \E i \in 0..Len(item[p].children) : InsertChild(p, i, x)
    \/ \E p \in Items, x \in Items : RemoveChild(p, x)
    \/ \E x \in Items : MoveUp(x)
    \/ \E x \in Items : MoveDown(x)
    \/ \E x \in Items : Copy(x)
    \/ \E x \in Items : AddItem(x)
    \/ \E x \in Items : \E i \in 0..Len(sched.items) : InsertItem(i, x)
    \/ \E x \in Items : RemoveItem(x)

SpecTree == Init /\ [][NextTree]_vars

\* ------------------------------------------------- attaching an ancestor
RECURSIVE DescendantsRec(_, _, _)
RECURSIVE DescendantsLoop(_, _, _, _, _)
\* CostItem.get_all_descendants on links that may be cyclic: the list, or the
\* RecursionError the recursion ends in when it comes back to an item whose
\* call is still running (stack)
DescendantsRec(h, self, stack) ==
    IF self \in stack THEN [ok |-> FALSE, val |-> <<>>]
    ELSE DescendantsLoop(h, h[self].children, 1, <<>>, stack \cup {self})

DescendantsLoop(h, s, i, acc, stack) ==
    IF i > Len(s) THEN [ok |-> TRUE, val |-> acc]
    ELSE LET r == DescendantsRec(h, s[i], stack) IN
         IF ~r.ok THEN r
         ELSE DescendantsLoop(h, s, i + 1, acc \o <<s[i]>> \o r.val, stack)

\* a priced row and a text row
CycleInputs ==
    {Kw("Post", "", "01", "", "", text, RInt(3), RInt(2), "COUNT") :
       text \in BOOLEAN}

\* self.add_child(child) by a caller that checks nothing
AddChildAny(self, child) ==
    /\ CanCall
    /\ Len(item[self].children) < MaxLen
    /\ item' = add_child(item, self, child)
    /\ last' = Called("add_child", self, child, 0, "None", child)
    /\ UNCHANGED <<cval, sched, clipboard, ifc, is_modified, app>>

\* self.insert_child(index, child) by a caller that checks nothing
InsertChildAny(self, index, child) ==
    /\ CanCall
    /\ Len(item[self].children) < MaxLen
    /\ item' = insert_child(item, self, index, child)
    /\ last' = Called("insert_child", self, child, index, "None", child)
    /\ UNCHANGED <<cval, sched, clipboard, ifc, is_modified, app>>

NextCycle ==
    \/ \E k \in CycleInputs : NewItem(k)
    \/ \E p \in Items, x \in Items : AddChildAny(p, x)
    \/ \E p \in Items, x \in Items :
          \E i \in 0..Len(item[p].children) : InsertChildAny(p, i, x)

SpecCycle == Init /\ [][NextCycle]_vars

\* the document edited through the controller
NextApp ==
    \/ \E sel \in Selections : AddChapterHandler(sel)
    \/ \E sel \in Selections : AddCostItemHandler(sel)
    \/ \E sel \in Selections : AddTextRowHandler(sel)
    \/ \E sel \in Visible : CutItemHandler(sel)
    \/ \E sel \in Visible : CopyItemHandler(sel)
    \/ \E sel \in Selections : PasteItemHandler(sel)
    \/ \E x \in Visible, q \in Quantities : SetQuantity(x, q)
    \/ \E x \in Visible, up \in UnitPrices : SetUnitPrice(x, up)
    \/ \E r \in VatRates : SetVatRate(r)
    \/ DoSave

SpecApp == Init /\ [][NextApp]_vars

\* CostTableView._add_chapter (context menu) with the row sel selected: a
\* chapter "XX" without record goes after the root chapter of the
\* selection, found with list.index, or to the end
view_add_chapter(h, c, sc, sel) ==
    LET new_chapter == Len(h) + 1
        h1 == Append(h, NewCostItem("Nieuw hoofdstuk", "XX", FALSE,
                                    Len(c) + 1))
        c1 == Append(c, NewCostValue(Zero, Zero, "COUNT"))
        found == IF sel = None THEN 0
                 ELSE ListIndex(h, c, sc.items, RootOf(h, sel))
    IN  IF found = -1
        THEN [h |-> h, c |-> c, sc |-> sc, ret |-> RecursionError,
              out |-> None]
        ELSE IF found = 0
        THEN [h |-> add_item(h1, sc, new_chapter).h, c |-> c1,
              sc |-> add_item(h1, sc, new_chapter).sc, ret |-> "None",
              out |-> new_chapter]
        ELSE [h |-> [h1 EXCEPT ![new_chapter].schedule = TheSchedule],
              c |-> c1,
              sc |-> [sc EXCEPT !.items = PyInsert(@, found, new_chapter)],
              ret |-> "None", out |-> new_chapter]

\* CostTableView._add_chapter, with the refresh and the itemChanged signal
\* that makes MainWindow._on_item_changed mark the file modified
ViewAddChapter(sel) ==
    /\ CanCall
    /\ Len(item) < MaxNodes
    /\ Len(sched.items) < MaxChapters
    /\ sel # None => RootOf(item, sel) # None
    /\ LET r == view_add_chapter(item, cval, sched, sel) IN
       /\ item' = refresh(r.h, r.sc, r.ret)
       /\ cval' = r.c
       /\ sched' = r.sc
       /\ is_modified' = (is_modified \/ r.ret = "None")
       /\ last' = Called("CostTableView._add_chapter", None, sel, 0, r.ret,
                         r.out)
    /\ UNCHANGED <<clipboard, ifc, app>>

\* a chapter of an opened document, with its record
LoadedChapter(nm, ident, rid) ==
    [NewCostItem(nm, ident, FALSE, rid) EXCEPT
        !.schedule = TheSchedule, !.ifc_cost_item = rid]

\* an opened document of two chapters, with any names and codes the file
\* gives them, and with or without a row under one of them
InitChapters ==
    \E n1 \in ChapterNames, n2 \in ChapterNames, c1 \in SortCodes \ {""},
       c2 \in SortCodes \ {""}, p \in 0..2 :
        /\ sched = [items |-> <<1, 2>>, vat_rate |-> RInt(21)]
        /\ item = set_schedule(
             IF p = 0
             THEN <<LoadedChapter(n1, c1, 1), LoadedChapter(n2, c2, 2)>>
             ELSE <<[LoadedChapter(n1, c1, 1) EXCEPT
                        !.children = IF p = 1 THEN <<3>> ELSE <<>>],
                    [LoadedChapter(n2, c2, 2) EXCEPT
                        !.children = IF p = 2 THEN <<3>> ELSE <<>>],
                    [LoadedChapter("Post", "01", 3) EXCEPT !.parent = p]>>,
             sched)
        /\ cval = [i \in 1..(IF p = 0 THEN 2 ELSE 3) |->
                      NewCostValue(RInt(3), RInt(2), "COUNT")]
        /\ clipboard = None
        /\ ifc = [i \in 1..(IF p = 0 THEN 2 ELSE 3) |->
                     NewIfcItem(IF i = 3 THEN p ELSE None,
                                IF i = 1 THEN n1 ELSE IF i = 2 THEN n2
                                ELSE "Post",
                                IF i = 1 THEN c1 ELSE IF i = 2 THEN c2
                                ELSE "01")]
        /\ is_modified = FALSE
        /\ app = [NewApp EXCEPT !.file_path = <<"begroting.ifc">>]
        /\ last = NoCall

NextChapters ==
    \/ \E sel \in Selections : AddChapterHandler(sel)
    \/ \E sel \in Selections : ViewAddChapter(sel)

\* from a new, empty document or from an opened one
SpecChapters == (Init \/ InitChapters) /\ [][NextChapters]_vars

\* ------------------------------------------------- column sorting
\* the strings the sort keys take, in Python's string order
StringOrder == <<"", "01", "02", "03", "aarde", "beton", "zand">>

Rank(str) == CHOOSE i \in DOMAIN StringOrder : StringOrder[i] = str

\* str.lower() on the names of the sorted documents
Lower(str) ==
    CASE str = "Zand" -> "zand"
      [] str = "Aarde" -> "aarde"
      [] OTHER -> str

\* the columns _sort_schedule sorts on
column_attrs == (1 :> "identification") @@ (2 :> "sfb_code")
                    @@ (3 :> "name") @@ (7 :> "subtotal")

\* x < y on rationals with positive denominators
RLess(x, y) == x[1] * y[2] < y[1] * x[2]

\* sort_key of _sort_schedule: the subtotal (0 when falsy) as a number, every
\* other attribute as its lower-cased text; a text key is given by its rank
sort_key(h, c, attr, n) ==
    IF attr = "subtotal" THEN subtotal(h, c, n).val
    ELSE RInt(Rank(Lower(h[n][attr])))

\* stabu_sort_key of _reset_sort: item.identification or ""
stabu_sort_key(h, n) == RInt(Rank(h[n].identification))

\* element i of s sorts before element j: by key, equal keys in list order
SortsBefore(s, keys, reverse, i, j) ==
    IF keys[s[i]] = keys[s[j]] THEN i < j
    ELSE IF reverse THEN RLess(keys[s[j]], keys[s[i]])
    ELSE RLess(keys[s[i]], keys[s[j]])

\* a sort that only reverses the list when reverse is set
list_sort_unkeyed(s, keys, reverse) ==
    IF reverse THEN [p \in DOMAIN s |-> s[Len(s) + 1 - p]] ELSE s

\* list.sort(key=.., reverse=..): stable in both directions
list_sort(s, keys, reverse) ==
    [p \in DOMAIN s |->
        s[CHOOSE i \in DOMAIN s :
            Cardinality({j \in DOMAIN s :
                            SortsBefore(s, keys, reverse, j, i)}) = p - 1]]

RECURSIVE sort_each(_, _, _, _, _)
\* the body of the loops of _sort_schedule, _reset_sort and
\* _sort_children_recursive for one item: sort its children, then descend
sort_chapter(h, n, keys, reverse) ==
    IF Len(h[n].children) > 0
    THEN LET h1 == [h EXCEPT ![n].children = list_sort(@, keys, reverse)]
         IN  sort_each(h1, h1[n].children, 1, keys, reverse)
    ELSE h

\* for item in s: sort_chapter(item)
sort_each(h, s, i, keys, reverse) ==
    IF i > Len(s) THEN h
    ELSE sort_each(sort_chapter(h, s[i], keys, reverse), s, i + 1,
                   keys, reverse)

\* CostTableView._sort_children_recursive
sort_children_recursive(h, parent_item, keys, reverse) ==
    sort_each(h, h[parent_item].children, 1, keys, reverse)

\* CostTableView._sort_schedule: nothing for a column without attribute;
\* otherwise the children of every root chapter are sorted at every depth
\* (schedule.items itself is not) and the view is rebuilt
sort_schedule(h, c, sc, column, order) ==
    IF column \notin DOMAIN column_attrs THEN h
    ELSE LET keys == [n \in DOMAIN h |->
                         sort_key(h, c, column_attrs[column], n)]
         IN  set_schedule(sort_each(h, sc.items, 1, keys,
                                    order = "Descending"), sc)

\* CostTableView._reset_sort: the same walk, ascending on the STABU code
reset_sort(h, sc) ==
    LET keys == [n \in DOMAIN h |-> stabu_sort_key(h, n)]
    IN  set_schedule(sort_each(h, sc.items, 1, keys, FALSE), sc)

\* CostTableView._on_header_clicked: ascending on a new column, descending on
\* the second click, reset on the third
HeaderClicked(logical_index) ==
    /\ CanCall
    /\ LET same == app.sort_column = logical_index
           reset == same /\ app.sort_order # "Ascending"
           order == IF same /\ ~reset THEN "Descending" ELSE "Ascending"
       IN  /\ app' = [app EXCEPT
                         !.sort_column = IF reset THEN -1 ELSE logical_index,
                         !.sort_order = order]
           /\ item' = IF reset THEN reset_sort(item, sched)
                      ELSE sort_schedule(item, cval, sched,
                                         logical_index, order)
           /\ last' = Called("_on_header_clicked", None, None, logical_index,
                             IF reset THEN "reset" ELSE order, None)
    /\ UNCHANGED <<cval, sched, clipboard, ifc, is_modified>>

\* the header sections clicked: the row number, which has no sort
\* attribute, and the columns that have one
Columns == {0, 1, 2, 3, 7}


\* an item of the sorted document, owning the CostValue of the same id
SortItem(nm, ident, up, kids, parent) ==
    [NewCostItem(nm, ident, FALSE, up) EXCEPT
        !.children = kids, !.parent = parent, !.schedule = TheSchedule]

\* a saved document on screen: chapter 1 with the rows 2, 3, 4, of which 2
\* has the rows 5, 6; the rows carry any codes, in any order
InitSort ==
    \E c2 \in SortCodes, c3 \in SortCodes, c4 \in SortCodes :
        /\ sched = [items |-> <<1>>, vat_rate |-> RInt(21)]
        /\ item = set_schedule(
                      <<SortItem("Ruwbouw", "01", 1, <<2, 3, 4>>, None),
                        SortItem("Zand", c2, 2, <<5, 6>>, 1),
                        SortItem("beton", c3, 3, <<>>, 1),
                        SortItem("Aarde", c4, 4, <<>>, 1),
                        SortItem("beton", "02", 5, <<>>, 2),
                        SortItem("Aarde", "01", 6, <<>>, 2)>>, sched)
        /\ cval = [i \in 1..6 |->
                      NewCostValue(RInt(<<0, 0, 30, 10, 20, 5>>[i]),
                                   RInt(1), "COUNT")]
        /\ clipboard = None
        /\ ifc = <<>>
        /\ is_modified = FALSE
        /\ app = [NewApp EXCEPT !.file_path = <<"begroting.ifc">>]
        /\ last = NoCall

NextSort == \E logical_index \in Columns : HeaderClicked(logical_index)

SpecSort == InitSort /\ [][NextSort]_vars


\* ------------------------------------------------- loading from IFC
TypeError == "TypeError"

\* attribute values as Python sees them: a missing attribute (hasattr is
\* False), None, a string, a number, an entity instance
PyAbsent == [t |-> "absent", s |-> "", n |-> Zero]
PyNone == [t |-> "NoneType", s |-> "", n |-> Zero]
PyStr(str) == [t |-> "str", s |-> str, n |-> Zero]
PyNum(r) == [t |-> "float", s |-> "", n |-> r]
PyEntity == [t |-> "entity", s |-> "", n |-> Zero]

\* truth value of an attribute value
PyTruthy(v) ==
    CASE v.t = "str" -> v.s # ""
      [] v.t = "float" -> v.n # Zero
      [] v.t = "entity" -> TRUE
      [] OTHER -> FALSE

\* "hasattr(obj, name) and obj.name"
HasTruthy(v) == v.t # "absent" /\ PyTruthy(v)

\* float() of a string: the decimal strings of the inputs parse, every
\* other string (the empty one included) is a ValueError
FloatOfStr(str) ==
    CASE str = "3.5" -> [exc |-> "None", n |-> Rat(7, 2)]
      [] str = "12" -> [exc |-> "None", n |-> RInt(12)]
      [] OTHER -> [exc |-> ValueError, n |-> Zero]

\* float(v): the number, or the exception it raises
PyFloat(v) ==
    CASE v.t = "float" -> [exc |-> "None", n |-> v.n]
      [] v.t = "str" -> FloatOfStr(v.s)
      [] OTHER -> [exc |-> TypeError, n |-> Zero]

\* a float() inside "try: .. except (TypeError, ValueError): pass"
GuardedFloat(v) == [exc |-> "None", n |-> PyFloat(v).n]

\* CostValue.from_ifc, "Extract unit price". AppliedValue is given as
\* [wrapped, value]: a measure entity (truthy) whose wrappedValue is value,
\* or the plain value itself (PyAbsent: no AppliedValue attribute)
unit_price_from_ifc(applied) ==
    IF applied.wrapped THEN PyFloat(applied.value)
    ELSE IF HasTruthy(applied.value) THEN GuardedFloat(applied.value)
         ELSE [exc |-> "None", n |-> Zero]

\* the attribute names tested in turn and the quantity type each selects
QuantityAttributes ==
    <<[attr |-> "CountValue", qt |-> "COUNT"],
      [attr |-> "LengthValue", qt |-> "LENGTH"],
      [attr |-> "AreaValue", qt |-> "AREA"],
      [attr |-> "VolumeValue", qt |-> "VOLUME"],
      [attr |-> "WeightValue", qt |-> "WEIGHT"]>>

\* CostValue.from_ifc, "Extract quantity": the if/elif chain from position
\* i on; q maps attribute names to values (PyAbsent: no such attribute)
RECURSIVE QuantityFrom(_, _)
QuantityFrom(q, i) ==
    IF i > Len(QuantityAttributes)
    THEN [exc |-> "None", n |-> Zero, qt |-> "COUNT"]
    ELSE IF HasTruthy(q[QuantityAttributes[i].attr])
         THEN [exc |-> PyFloat(q[QuantityAttributes[i].attr]).exc,
               n |-> PyFloat(q[QuantityAttributes[i].attr]).n,
               qt |-> QuantityAttributes[i].qt]
         ELSE QuantityFrom(q, i + 1)

\* "if ifc_quantity:"; the optional argument is given as a sequence, <<>>
\* for None and <<q>> for a quantity entity q
quantity_from_ifc(ifc_quantity) ==
    IF ifc_quantity = <<>>
    THEN [exc |-> "None", n |-> Zero, qt |-> "COUNT"]
    ELSE QuantityFrom(ifc_quantity[1], 1)

\* CostValue.from_ifc: the exception it ends in, or the CostValue
from_ifc_result(up, q) ==
    IF up.exc # "None" THEN [ret |-> up.exc, value |-> None]
    ELSE IF q.exc # "None" THEN [ret |-> q.exc, value |-> None]
    ELSE [ret |-> "None", value |-> NewCostValue(up.n, q.n, q.qt)]

CostValue_from_ifc(ifc_cost_value, ifc_quantity) ==
    from_ifc_result(unit_price_from_ifc(ifc_cost_value.AppliedValue),
                    quantity_from_ifc(ifc_quantity))

\* what a persisted numeric attribute may hold: nothing, None, an empty or
\* an unparsable or a decimal string, zero, a number
FieldValues ==
    {PyAbsent, PyNone, PyStr(""), PyStr("abc"), PyStr("3.5"), PyNum(Zero),
     PyNum(Rat(25, 2))}

\* IfcCostValue records: AppliedValue a measure entity wrapping a value,
\* a plain value, or an entity without wrappedValue (IfcMeasureWithUnit)
IfcCostValues ==
    {[AppliedValue |-> [wrapped |-> TRUE, value |-> v], Category |-> ""] :
       v \in FieldValues \ {PyAbsent}}
    \cup
    {[AppliedValue |-> [wrapped |-> FALSE, value |-> v], Category |-> ""] :
       v \in FieldValues \cup {PyEntity}}

\* a quantity entity has one value attribute, named after its kind
\* (IfcQuantityTime: TimeValue, which from_ifc does not read)
QuantityKinds ==
    {"CountValue", "LengthValue", "AreaValue", "VolumeValue", "WeightValue",
     "TimeValue"}

IfcQuantity(kind, v) == [a \in QuantityKinds |-> IF a = kind THEN v ELSE PyAbsent]

\* the CostQuantities of an item: none, or one of any kind holding any
\* value
IfcQuantities ==
    {<<>>} \cup {<<IfcQuantity(kind, v)>> :
                   kind \in QuantityKinds, v \in FieldValues \ {PyAbsent}}

\* a persisted IfcCostItem with its CostValues and CostQuantities
IfcCostItemRecord(nm, ident, values, quantities) ==
    [Name |-> nm, Identification |-> ident, Description |-> "",
     nest |-> None, SFB_Code |-> "", HtmlName |-> "", IsTextOnly |-> "",
     CostValues |-> values, CostQuantities |-> quantities]

\* CostItem.from_ifc, "Haal cost values op": the default CostValue when the
\* record has no cost values, else from_ifc of the first value and the
\* first quantity
cost_value_of_record(rec) ==
    IF rec.CostValues = <<>>
    THEN [ret |-> "None", value |-> NewCostValue(Zero, Zero, "COUNT")]
    ELSE CostValue_from_ifc(rec.CostValues[1],
                            IF rec.CostQuantities = <<>> THEN <<>>
                            ELSE <<rec.CostQuantities[1]>>)

\* CostItem.from_ifc of record rid of file f: the exception it ends in, or
\* the heaps with the new item and its cost value
CostItem_from_ifc(h, c, f, rid, parent) ==
    IF cost_value_of_record(f[rid]).ret # "None"
    THEN [h |-> h, c |-> c, ret |-> cost_value_of_record(f[rid]).ret,
          out |-> None]
    ELSE [h |-> Append(h, [NewCostItem(f[rid].Name, f[rid].Identification,
                                       FALSE, Len(c) + 1)
                           EXCEPT !.description = f[rid].Description,
                                  !.parent = parent,
                                  !.ifc_cost_item = rid]),
          c |-> Append(c, cost_value_of_record(f[rid]).value),
          ret |-> "None", out |-> Len(h) + 1]

\* the records a file may hold for one cost item
IfcCostItems ==
    {IfcCostItemRecord("Post", "01", <<>>, <<>>)} \cup
    {IfcCostItemRecord("Post", "01", <<v>>, qs) :
       v \in IfcCostValues, qs \in IfcQuantities}

\* the values of ScheduleType and ScheduleStatus
ScheduleTypes ==
    {"BUDGET", "COSTPLAN", "ESTIMATE", "TENDER", "PRICEDBILLOFQUANTITIES",
     "UNPRICEDBILLOFQUANTITIES", "SCHEDULEOFRATES"}
ScheduleStatuses == {"DRAFT", "APPROVED", "SUBMITTED", "REJECTED"}

\* str.upper() on the strings of the inputs
Upper(str) ==
    CASE str = "draft" -> "DRAFT"
      [] str = "Approved" -> "APPROVED"
      [] str = "final" -> "FINAL"
      [] OTHER -> str

\* a decoding of the status that compares the text as it is written
status_exact(v) ==
    IF HasTruthy(v) /\ v.s \in ScheduleStatuses THEN v.s ELSE "DRAFT"

\* CostSchedule.from_ifc, "Type": ScheduleType(PredefinedType), BUDGET when
\* the attribute is missing or falsy or the lookup raises ValueError
schedule_type_from_ifc(v) ==
    IF HasTruthy(v) /\ v.t = "str" /\ v.s \in ScheduleTypes THEN v.s
    ELSE "BUDGET"

\* CostSchedule.from_ifc, "Status": ScheduleStatus(Status.upper()), DRAFT
\* when the attribute is missing or falsy or the lookup raises ValueError
status_from_ifc(v) ==
    IF HasTruthy(v) /\ Upper(v.s) \in ScheduleStatuses THEN Upper(v.s)
    ELSE "DRAFT"

\* CostSchedule.from_ifc of record rid of file f: a new schedule without
\* items
CostSchedule_from_ifc(f, rid) ==
    [items |-> <<>>, vat_rate |-> RInt(21),
     name |-> IF f[rid].Name = "" THEN "Onbekende Begroting" ELSE f[rid].Name,
     description |-> f[rid].Description,
     schedule_type |-> schedule_type_from_ifc(f[rid].PredefinedType),
     status |-> status_from_ifc(f[rid].Status),
     ifc_cost_schedule |-> rid]

\* the IfcCostSchedule records a file may hold: PredefinedType and Status
\* missing, None, empty, valid, valid in another case, or unknown
IfcCostSchedules ==
    {[Name |-> "Begroting", Description |-> "", PredefinedType |-> pt,
      Status |-> st] :
       pt \in {PyAbsent, PyNone, PyStr(""), PyStr("BUDGET"),
               PyStr("COSTPLAN"), PyStr("tender"), PyStr("NOTDEFINED")},
       st \in {PyAbsent, PyNone, PyStr(""), PyStr("DRAFT"),
               PyStr("APPROVED"), PyStr("draft"), PyStr("Approved"),
               PyStr("final")}}

\* the cost item records of a file
IsCostItem(rec) == "CostValues" \in DOMAIN rec

\* an opened file that holds a schedule record and one cost item record
InitLoad ==
    /\ item = <<>>
    /\ cval = <<>>
    /\ sched = [items |-> <<>>, vat_rate |-> RInt(21)]
    /\ clipboard = None
    /\ ifc \in {<<s, rec>> : s \in IfcCostSchedules, rec \in IfcCostItems}
    /\ is_modified = FALSE
    /\ app = NewApp
    /\ last = NoCall

\* CostItem.from_ifc(ifc_item, parent) on a record of the file that has
\* not been loaded
CostItemFromIfc(rid, parent) ==
    /\ CanCall
    /\ IsCostItem(ifc[rid])
    /\ \A n \in Items : item[n].ifc_cost_item # rid
    /\ Len(item) < MaxNew
    /\ LET r == CostItem_from_ifc(item, cval, ifc, rid, parent) IN
       /\ item' = r.h
       /\ cval' = r.c
       /\ last' = Called("CostItem.from_ifc", None, rid, 0, r.ret, r.out)
    /\ UNCHANGED <<sched, clipboard, ifc, is_modified, app>>

\* self._schedule = CostSchedule.from_ifc(ifc_schedule), once per file
ScheduleFromIfc(rid) ==
    /\ CanCall
    /\ ~ IsCostItem(ifc[rid])
    /\ "ifc_cost_schedule" \notin DOMAIN sched
    /\ sched' = CostSchedule_from_ifc(ifc, rid)
    /\ last' = Called("CostSchedule.from_ifc", None, rid, 0, "None", None)
    /\ UNCHANGED <<item, cval, clipboard, ifc, is_modified, app>>

NextLoad ==
    \/ \E rid \in DOMAIN ifc : ScheduleFromIfc(rid)
    \/ \E rid \in DOMAIN ifc : \E parent \in {None} \cup Items :
         CostItemFromIfc(rid, parent)

SpecLoad == InitLoad /\ [][NextLoad]_vars

\* CostAPI.get_root_cost_items (nest = None) and get_nested_cost_items: the
\* cost item records of the file placed under nest, in file order
NestedRecords(f, nest) ==
    SelectSeq([i \in 1..Len(f) |-> i],
              LAMBDA r : IsCostItem(f[r]) /\ f[r].nest = nest)

\* _load_cost_item_recursive after CostItem.from_ifc returned r: the SFB
\* code, the HTML name and the text-only marker are taken over when truthy
loaded_item(r, f, rid) ==
    [h |-> [r.h EXCEPT ![r.out].sfb_code =
                         IF Truthy(get_sfb_code(f, rid))
                         THEN get_sfb_code(f, rid) ELSE @,
                       ![r.out].html_name =
                         IF Truthy(get_html_name(f, rid))
                         THEN get_html_name(f, rid) ELSE @,
                       ![r.out].is_text_only =
                         IF get_is_text_only(f, rid) THEN TRUE ELSE @],
     c |-> r.c, out |-> r.out]

\* item.add_child(child) for the child loaded in state st
attach_loaded(st, parent) ==
    [h |-> add_child(st.h, parent, st.out), c |-> st.c, out |-> parent]

\* MainWindow._load_cost_item_recursive, and its loop over the nested
\* records kids from position i on (st.out is the item being filled)
RECURSIVE load_cost_item_recursive(_, _, _, _, _)
RECURSIVE load_nested(_, _, _, _)
load_cost_item_recursive(h, c, f, rid, parent) ==
    load_nested(loaded_item(CostItem_from_ifc(h, c, f, rid, parent), f, rid),
                f, NestedRecords(f, rid), 1)

load_nested(st, f, kids, i) ==
    IF i > Len(kids) THEN st
    ELSE load_nested(attach_loaded(
                       load_cost_item_recursive(st.h, st.c, f, kids[i],
                                                st.out),
                       st.out),
                     f, kids, i + 1)

\* schedule.add_item(item) for the root item loaded in state r
add_loaded_root(r, sc) ==
    [h |-> add_item(r.h, sc, r.out).h, c |-> r.c,
     sc |-> add_item(r.h, sc, r.out).sc]

\* MainWindow._load_schedule_from_ifc: the loop over the root records
RECURSIVE load_roots(_, _, _, _)
load_roots(st, f, roots, i) ==
    IF i > Len(roots) THEN st
    ELSE load_roots(add_loaded_root(
                      load_cost_item_recursive(st.h, st.c, f, roots[i], None),
                      st.sc),
                    f, roots, i + 1)

\* MainWindow._load_schedule_from_ifc for the schedule record 1 of the
\* file, up to the call that hands the schedule to the table view
load_schedule_from_ifc(h, c, f) ==
    load_roots([h |-> h, c |-> c, sc |-> CostSchedule_from_ifc(f, 1)],
               f, NestedRecords(f, None), 1)

\* a priced record (12.50 per m3, 2 m3) and one without cost values
PricedRecord(nm, ident, nest) ==
    [IfcCostItemRecord(nm, ident,
        <<[AppliedValue |-> [wrapped |-> TRUE, value |-> PyNum(Rat(25, 2))],
           Category |-> ""]>>,
        <<IfcQuantity("VolumeValue", PyNum(RInt(2)))>>)
     EXCEPT !.nest = nest]
PlainRecord(nm, ident, nest) ==
    [IfcCostItemRecord(nm, ident, <<>>, <<>>) EXCEPT !.nest = nest]

\* files of a schedule record and three cost item records: the second
\* under the schedule or the first, the third under the schedule or either
\* of the others, each priced or not, the third a text row or not
RoundTripFiles ==
    {<<[Name |-> "Begroting", Description |-> "",
        PredefinedType |-> PyStr("BUDGET"), Status |-> PyStr("DRAFT")],
       IF p1 THEN PricedRecord("Fundering", "01", None)
       ELSE PlainRecord("Fundering", "01", None),
       IF p2 THEN PricedRecord("Beton", "02", n2)
       ELSE PlainRecord("Beton", "02", n2),
       [IF p3 THEN PricedRecord("", "", n3) ELSE PlainRecord("", "", n3)
        EXCEPT !.IsTextOnly = t3]>> :
       p1 \in BOOLEAN, p2 \in BOOLEAN, p3 \in BOOLEAN,
       n2 \in {None, 2}, n3 \in {None, 2, 3}, t3 \in {"", "true"}}

InitRoundTrip ==
    /\ item = <<>>
    /\ cval = <<>>
    /\ sched = [items |-> <<>>, vat_rate |-> RInt(21)]
    /\ clipboard = None
    /\ ifc \in RoundTripFiles
    /\ is_modified = FALSE
    /\ app = NewApp
    /\ last = NoCall

\* MainWindow._load_schedule_from_ifc
LoadScheduleFromIfc ==
    /\ last.n < MaxRounds
    /\ LET r == load_schedule_from_ifc(item, cval, ifc) IN
       /\ item' = set_schedule(r.h, r.sc)
       /\ cval' = r.c
       /\ sched' = r.sc
    /\ last' = Called("_load_schedule_from_ifc", None, None, 0, "None", None)
    /\ UNCHANGED <<clipboard, ifc, is_modified, app>>

\* MainWindow._sync_schedule_to_ifc
SyncScheduleToIfc ==
    /\ last.n < MaxRounds
    /\ ifc' = sync_schedule_to_ifc(ifc, item, get_all_items(item, sched), 1)
    /\ last' = Called("_sync_schedule_to_ifc", None, None, 0, "None", None)
    /\ UNCHANGED <<item, cval, sched, clipboard, is_modified, app>>

NextRoundTrip == LoadScheduleFromIfc \/ SyncScheduleToIfc

SpecRoundTrip == InitRoundTrip /\ [][NextRoundTrip]_vars

\* direct calls of the persistence wrapper
NextApi ==
    \E cost_schedule \in {None, TheSchedule} :
      \E cost_item \in {None} \cup DOMAIN ifc :
        \E name \in ApiNames, identification \in ApiCodes :
          ApiAddCostItem(cost_schedule, cost_item, name, identification)

SpecApi == Init /\ [][NextApi]_vars

\* the aggregation rule under every mutation of the tree
NextTotals ==
    \/ \E k \in TotalsInputs : NewItem(k)
    \/ \E p \in Items, x \in Items : AddChild(p, x)
    \/ \E p \in Items, x \in Items :
          \E i \in 0..Len(item[p].children) : InsertChild(p, i, x)
    \/ \E p \in Items, x \in Items : RemoveChild(p, x)
    \/ \E x \in Items : MoveUp(x)
    \/ \E x \in Items : MoveDown(x)
    \/ \E x \in Items : AddItem(x)
    \/ \E x \in Items : RemoveItem(x)
    \/ \E x \in Items, q \in Quantities : SetQuantity(x, q)
    \/ \E x \in Items, up \in UnitPrices : SetUnitPrice(x, up)
    \/ \E x \in Items, b \in BOOLEAN : SetTextOnly(x, b)
    \/ \E r \in VatRates : SetVatRate(r)
    \/ \E sel \in Selections : AddCostItemHandler(sel)
    \/ \E sel \in Selections : AddTextRowHandler(sel)

SpecTotals == Init /\ [][NextTotals]_vars

\* copies and what happens to them afterwards
NextCopy ==
    \/ \E k \in CopyInputs : NewItem(k)
    \/ \E p \in Items, x \in Items : AddChild(p, x)
    \/ \E p \in Items, x \in Items : RemoveChild(p, x)
    \/ \E x \in Items : MoveUp(x)
    \/ \E x \in Items : AddItem(x)
    \/ \E x \in Items : CopyUpTo(x, MaxCopyNodes)
    \/ \E x \in Items, q \in Quantities : SetQuantity(x, q)
    \/ \E x \in Items, up \in UnitPrices : SetUnitPrice(x, up)
    \/ \E x \in Items, b \in BOOLEAN : SetTextOnly(x, b)

SpecCopy == Init /\ [][NextCopy]_vars


\* trees and root lists the read-only queries are asked on
NextQuery ==
    \/ \E k \in QueryInputs : NewItem(k)
    \/ \E p \in Items, x \in Items : AddChild(p, x)
    \/ \E p \in Items, x \in Items : RemoveChild(p, x)
    \/ \E x \in Items : AddItem(x)
    \/ \E x \in Items : \E i \in 0..Len(sched.items) : InsertItem(i, x)
    \/ \E x \in Items : RemoveItem(x)
    \/ \E code \in ChapterCodes : CreateChapter(ChapterName, code)

SpecQuery == Init /\ [][NextQuery]_vars

\* ------------------------------------------------------------- properties
\* the sum of a sequence of numbers
RECURSIVE SumOf(_)
SumOf(s) == IF s = <<>> THEN Zero ELSE RAdd(s[1], SumOf(Tail(s)))

\* the subtotals of the children of n, in child order
ChildSubtotals(h, c, n) ==
    [i \in 1..Len(h[n].children) |-> subtotal(h, c, h[n].children[i]).val]

\* C1: every node's subtotal follows the three-case rule in this order: 0
\* when is_text_only (whatever its quantity, price or children), else
\* quantity * unit_price when it has no children, else the sum of its
\* children's subtotals; and total equals subtotal.
C1_SubtotalRule ==
    \A n \in Items :
      LET s == subtotal(item, cval, n) IN
      /\ s.ok
      /\ item[n].is_text_only => s.val = Zero
      /\ (~item[n].is_text_only /\ item[n].children = <<>>) =>
            s.val = RMul(quantity(item, cval, n), unit_price(item, cval, n))
      /\ (~item[n].is_text_only /\ item[n].children # <<>>) =>
            s.val = SumOf(ChildSubtotals(item, cval, n))
      /\ total(item, cval, n) = s

\* a chapter over a priced leaf and a priced text row, and a text row that
\* has a priced child
C1_Witness ==
    /\ \E p \in Items :
         /\ ~item[p].is_text_only
         /\ Len(item[p].children) = 2
         /\ \E a, b \in Range(item[p].children) :
              /\ ~item[a].is_text_only /\ item[a].children = <<>>
              /\ subtotal(item, cval, a).val = Rat(2125, 2)
              /\ item[b].is_text_only
              /\ ValueTotal(cval[item[b].cost_value]) = RInt(50)
         /\ subtotal(item, cval, p).val = Rat(2125, 2)

\* C2: in every reachable state every node that has at least one child has
\* subtotal equal to the sum of its children's subtotals.
C2_ChapterSumsChildren ==
    \A n \in Items :
      item[n].children # <<>> =>
        subtotal(item, cval, n).val = SumOf(ChildSubtotals(item, cval, n))

\* C3: parent and children references are mutually consistent: every
\* element of p.children has parent p, and every root item has parent None.
C3_ParentChildConsistent ==
    /\ \A p \in Items : \A x \in Range(item[p].children) : item[x].parent = p
    /\ \A r \in Range(sched.items) : item[r].parent = None

\* C4: every item reachable from schedule.items has schedule == the
\* schedule, and a node detached by remove_child / remove_item has, with
\* all its descendants, schedule None.
C4_ScheduleRefs ==
    /\ \A n \in Visible : item[n].schedule = TheSchedule
    /\ (last.op \in {"remove_child", "remove_item"} /\ last.ret = "True") =>
          \A d \in Subtree(item, last.arg) : item[d].schedule = None

\* the links form a forest: C3's consistency and no list holds a node twice
WellFormed ==
    /\ \A p \in Items :
         /\ \A x \in Range(item[p].children) : item[x].parent = p
         /\ \A i, j \in DOMAIN item[p].children :
              item[p].children[i] = item[p].children[j] => i = j
    /\ \A r \in Range(sched.items) : item[r].parent = None

\* C5: in a forest, for any parent p and node x not in p.children (x not an
\* ancestor of p), p.add_child(x) followed by p.remove_child(x) returns
\* true and leaves x.parent None, x.schedule None, x absent from
\* p.children, p.children as it was before the add and p.subtotal at its
\* value before the add.
C5_AttachDetachSymmetry ==
    WellFormed =>
    \A p \in Items, x \in Items :
      (x \notin Range(item[p].children) /\ NoCycle(p, x)) =>
        LET h1 == add_child(item, p, x)
            r == remove_child(h1, cval, p, x)
        IN  /\ r.ret = "True"
            /\ r.h[x].parent = None
            /\ r.h[x].schedule = None
            /\ x \notin Range(r.h[p].children)
            /\ r.h[p].children = item[p].children
            /\ subtotal(r.h, cval, p) = subtotal(item, cval, p)

\* the calls that mutate a node: the node's own setters and the list
\* operations of its parent
Mutations ==
    {"set_quantity", "set_unit_price", "set_is_text_only", "add_child",
     "remove_child", "move_up"}

\* the nodes a call writes to or is addressed to
Touched(l, h) ==
    ({l.self, l.arg} \ {None}) \cup
    (IF l.op = "move_up" THEN {h[l.self].parent} \ {None} ELSE {})

\* the step leaves every node under a, and its cost value, as it was
SideUntouched(a) ==
    /\ \A n \in Subtree(item, a) :
         /\ item'[n] = item[n]
         /\ cval'[item[n].cost_value] = cval[item[n].cost_value]
    /\ subtotal(item', cval', a) = subtotal(item, cval, a)

\* a mutation addressed to the subtree of b and not to that of a leaves
\* the subtree of a untouched
Independent(a, b) ==
    LET Sa == Subtree(item, a)
        Sb == Subtree(item, b)
        T == Touched(last', item)
    IN  (Sa \cap Sb = {} /\ T \cap Sb # {} /\ T \cap Sa = {})
          => SideUntouched(a)

\* C6: y = x.copy() shares no node and no cost value with x, and any later
\* mutation of y's subtree (quantity, unit price, text flag, adding,
\* removing or moving children) leaves every field of every node in x's
\* subtree and x.subtotal unchanged, and the other way round.
C6_CopyIndependent ==
    [][/\ last'.op = "copy" =>
            LET Sx == Subtree(item', last'.cp[1])
                Sy == Subtree(item', last'.cp[2])
            IN  /\ Sx \cap Sy = {}
                /\ {item'[n].cost_value : n \in Sx}
                     \cap {item'[n].cost_value : n \in Sy} = {}
       /\ (last.cp # <<>> /\ last'.cp = last.cp /\ last'.op \in Mutations) =>
            /\ Independent(last.cp[1], last.cp[2])
            /\ Independent(last.cp[2], last.cp[1])
      ]_vars

\* the copy of a row with a child had its price set and the original kept
\* its own
C6_Witness ==
    /\ last.cp # <<>>
    /\ last.op = "set_unit_price"
    /\ last.self \in Subtree(item, last.cp[2])
    /\ item[last.cp[1]].children # <<>>
    /\ \E n \in Subtree(item, last.cp[1]) :
         unit_price(item, cval, n) # unit_price(item, cval, last.self)
    /\ \A n \in Subtree(item, last.cp[1]) :
         unit_price(item, cval, n) = RInt(5)

\* b is a copy of a: equal data fields and cost value numbers, and the
\* children of b are copies of the children of a, in order, with parent b
RECURSIVE IsCopyOf(_, _, _, _)
IsCopyOf(h, c, a, b) ==
    /\ h[b].name = h[a].name
    /\ h[b].html_name = h[a].html_name
    /\ h[b].identification = h[a].identification
    /\ h[b].sfb_code = h[a].sfb_code
    /\ h[b].description = h[a].description
    /\ h[b].is_text_only = h[a].is_text_only
    /\ unit_price(h, c, b) = unit_price(h, c, a)
    /\ quantity(h, c, b) = quantity(h, c, a)
    /\ quantity_type(h, c, b) = quantity_type(h, c, a)
    /\ Len(h[b].children) = Len(h[a].children)
    /\ \A i \in DOMAIN h[a].children :
         /\ h[h[b].children[i]].parent = b
         /\ IsCopyOf(h, c, h[a].children[i], h[b].children[i])

\* C7: y = x.copy() is a new detached root (parent None, schedule None, in
\* no children list and not a root item) whose subtree is isomorphic to
\* x's with equal name, rich name, identification, classification code,
\* description, text flag, unit price, quantity and quantity type, has
\* y.subtotal = x.subtotal, and leaves x, its parent, schedule and position
\* unchanged.
C7_CopyIsomorphic ==
    [][last'.op = "copy" =>
         LET x == last'.self
             y == last'.out
         IN  /\ y \notin Items
             /\ item'[y].parent = None
             /\ item'[y].schedule = None
             /\ \A n \in DOMAIN item' : y \notin Range(item'[n].children)
             /\ y \notin Range(sched'.items)
             /\ IsCopyOf(item', cval', x, y)
             /\ subtotal(item', cval', y) = subtotal(item', cval', x)
             /\ \A n \in Items : item'[n] = item[n]
             /\ \A v \in DOMAIN cval : cval'[v] = cval[v]
             /\ sched' = sched
      ]_vars

\* an attached row with rich name, codes and a child has just been copied
C7_Witness ==
    /\ last.op = "copy"
    /\ item[last.self].parent # None
    /\ item[last.self].children # <<>>
    /\ item[last.self].html_name # ""
    /\ item[last.self].sfb_code # ""
    /\ item[last.out].children # <<>>
    /\ \E n \in Range(item[last.self].children) :
         subtotal(item, cval, n).val # Zero

\* the positions of n in the list s
Positions(s, n) == {i \in DOMAIN s : s[i] = n}

\* the list s with the elements at i and j exchanged
Swapped(s, i, j) ==
    [k \in DOMAIN s |-> IF k = i THEN s[j] ELSE IF k = j THEN s[i] ELSE s[k]]

\* the step changes nothing but the children list of p
OnlyChildrenOf(p) ==
    /\ \A n \in Items : n # p => item'[n] = item[n]
    /\ item'[p] = [item[p] EXCEPT !.children = item'[p].children]
    /\ cval' = cval
    /\ sched' = sched

\* C8: in a forest, move_up on a node at index i > 0 of its parent's children exchanges
\* it with the sibling at i - 1, move_down at index i < len - 1 exchanges
\* it with the sibling at i + 1; each returns true and changes no other
\* position, no parent link and no subtotal.
C8_MoveSwaps ==
    [][LET x == last'.self
           p == item[x].parent
           s == item[p].children
       IN
       (last'.op \in {"move_up", "move_down"} /\ p # None /\ WellFormed) =>
         \A i \in Positions(s, x) :
           /\ (last'.op = "move_up" /\ i > 1) =>
                /\ last'.ret = "True"
                /\ item'[p].children = Swapped(s, i - 1, i)
                /\ OnlyChildrenOf(p)
                /\ subtotal(item', cval', p) = subtotal(item, cval, p)
           /\ (last'.op = "move_down" /\ i < Len(s)) =>
                /\ last'.ret = "True"
                /\ item'[p].children = Swapped(s, i, i + 1)
                /\ OnlyChildrenOf(p)
                /\ subtotal(item', cval', p) = subtotal(item, cval, p)
      ]_vars

\* C9: in a forest, move_up on the first child, move_down on the last child, and either
\* on a node without parent return false and change nothing.
C9_MoveBoundary ==
    [][LET x == last'.self
           p == item[x].parent
       IN
       (last'.op \in {"move_up", "move_down"} /\ WellFormed) =>
         /\ p = None => (last'.ret = "False" /\ item' = item /\ sched' = sched)
         /\ (p # None /\ last'.op = "move_up"
               /\ item[p].children # <<>> /\ item[p].children[1] = x) =>
              (last'.ret = "False" /\ item' = item /\ sched' = sched)
         /\ (p # None /\ last'.op = "move_down"
               /\ item[p].children # <<>>
               /\ item[p].children[Len(item[p].children)] = x) =>
              (last'.ret = "False" /\ item' = item /\ sched' = sched)
      ]_vars

C11_RemoveChild ==
    [][(last'.op = "remove_child" /\ WellFormed) =>
         LET p == last'.self
             x == last'.arg
             s == item[p].children
         IN  /\ x \notin Range(s) =>
                  (last'.ret = "False" /\ item' = item)
             /\ x \in Range(s) =>
                  /\ last'.ret = "True"
                  /\ \E i \in Positions(s, x) :
                       item'[p].children = RemoveAt(s, i)
                  /\ item'[x].parent = None
                  /\ item'[x].schedule = None
                  /\ \A n \in Items : n \notin {p, x} => item'[n] = item[n]
      ]_vars

\* the step changes child x (parent and schedule only) and receiver p
\* (children only) and nothing else
AttachFrame(p, x) ==
    /\ \A n \in Items : n \notin {p, x} => item'[n] = item[n]
    /\ item'[x] = [item[x] EXCEPT !.parent = item'[x].parent,
                                  !.schedule = item'[x].schedule,
                                  !.children = item'[x].children]
    /\ item'[p] = [item[p] EXCEPT !.children = item'[p].children,
                                  !.parent = item'[p].parent,
                                  !.schedule = item'[p].schedule]
    /\ x # p => (item'[x].children = item[x].children
                 /\ item'[p].parent = item[p].parent
                 /\ item'[p].schedule = item[p].schedule)
    /\ Len(item') = Len(item)
    /\ cval' = cval
    /\ sched' = sched

\* C12: add_child(child) returns child and leaves it last in self.children,
\* insert_child(index, child) with 0 <= index <= len(children) returns child
\* and leaves it at position index with the order of the previous children
\* kept; both set child.parent to self and child.schedule to self.schedule,
\* and no other node's fields change.
C12_AddInsertChild ==
    [][LET p == last'.self
           x == last'.arg
           s == item[p].children
           i == last'.index
       IN
       /\ last'.op = "add_child" =>
            /\ last'.out = x
            /\ item'[p].children = Append(s, x)
            /\ item'[x].parent = p
            /\ item'[x].schedule = item[p].schedule
            /\ AttachFrame(p, x)
       /\ (last'.op = "insert_child" /\ 0 <= i /\ i <= Len(s)) =>
            /\ last'.out = x
            /\ Len(item'[p].children) = Len(s) + 1
            /\ item'[p].children[i + 1] = x
            /\ RemoveAt(item'[p].children, i + 1) = s
            /\ item'[x].parent = p
            /\ item'[x].schedule = item[p].schedule
            /\ AttachFrame(p, x)
      ]_vars

\* a row was inserted in front of its sibling under a chapter of the schedule
C12_Witness ==
    /\ last.op = "insert_child"
    /\ last.index = 0
    /\ Len(item[last.self].children) = 2
    /\ item[last.self].children[1] = last.arg
    /\ item[last.self].schedule = TheSchedule
    /\ item[last.arg].schedule = TheSchedule
    /\ item[last.arg].parent = last.self

\* every root item occurs once in schedule.items and refers to the schedule
RootsConsistent ==
    /\ \A r \in Range(sched.items) : item[r].schedule = TheSchedule
    /\ \A i, j \in DOMAIN sched.items :
         sched.items[i] = sched.items[j] => i = j

\* C13: in a forest whose roots are consistent, after add_item(item) the
\* item is last in schedule.items, after insert_item(index, item) it is at
\* position index,
\* in both cases with parent None and schedule the schedule;
\* remove_item(item) on a root item removes it, sets its schedule to None
\* and returns true, and on a node that is not in schedule.items returns
\* false and changes nothing.
C13_RootOperations ==
    (WellFormed /\ RootsConsistent) =>
    /\ last.op = "add_item" =>
         /\ sched.items # <<>>
         /\ sched.items[Len(sched.items)] = last.arg
         /\ item[last.arg].parent = None
         /\ item[last.arg].schedule = TheSchedule
    /\ (last.op = "insert_item" /\ last.index < Len(sched.items)) =>
         /\ sched.items[last.index + 1] = last.arg
         /\ item[last.arg].parent = None
         /\ item[last.arg].schedule = TheSchedule
    /\ \A x \in Items :
         LET r == remove_item(item, cval, sched, x) IN
         /\ x \notin Range(sched.items) =>
              (r.ret = "False" /\ r.h = item /\ r.sc = sched)
         /\ x \in Range(sched.items) =>
              /\ r.ret = "True"
              /\ \E i \in Positions(sched.items, x) :
                   r.sc.items = RemoveAt(sched.items, i)
              /\ r.h[x].schedule = None

\* the codes from the root down to n, written top-down: the parent's full
\* code, then the separator and the own code when both are there
RECURSIVE FullCode(_, _)
FullCode(n, sep) ==
    IF item[n].parent = None THEN item[n].identification
    ELSE LET up == FullCode(item[n].parent, sep) IN
         IF item[n].identification = "" THEN up
         ELSE IF up = "" THEN item[n].identification
         ELSE up \o sep \o item[n].identification

\* C14: get_path() is the ancestor chain from the root ancestor down to
\* self (length level + 1, each element the parent of the next), and
\* get_full_identification(sep) joins the non-empty identifications on that
\* path, root first, with sep, without deduplication and without a
\* separator for a skipped empty code.
C14_PathAndFullIdentification ==
    \A x \in Items :
      LET path == get_path(item, x) IN
      /\ Len(path) = level(item, x) + 1
      /\ path[Len(path)] = x
      /\ item[path[1]].parent = None
      /\ \A i \in 1..(Len(path) - 1) : item[path[i + 1]].parent = path[i]
      /\ \A sep \in Separators :
           get_full_identification(item, x, sep) = FullCode(x, sep)

\* root "01", then a row without code, then "01.05": "01.01.05"
C14_Witness ==
    \E x \in Items :
      /\ Len(get_path(item, x)) = 3
      /\ item[get_path(item, x)[1]].identification = "01"
      /\ item[get_path(item, x)[2]].identification = ""
      /\ item[x].identification = "01.05"
      /\ get_full_identification(item, x, ".") = "01.01.05"
      /\ get_full_identification(item, x, "-") = "01-01.05"

\* the nodes below and including n in pre-order: n, then the pre-order of
\* each child in sibling order
RECURSIVE PreOrder(_)
RECURSIVE PreOrderAll(_)
PreOrder(n) == <<n>> \o PreOrderAll(item[n].children)

PreOrderAll(list) ==
    IF list = <<>> THEN <<>>
    ELSE PreOrder(Head(list)) \o PreOrderAll(Tail(list))

\* the first element of seq that carries the code, None when there is none
FirstWith(seq, code) ==
    LET hits == {i \in DOMAIN seq : item[seq[i]].identification = code}
    IN  IF hits = {} THEN None
        ELSE seq[CHOOSE i \in hits : \A j \in hits : i <= j]

\* C15: find_by_identification(code) returns the first node in pre-order
\* (self first, then the children in sibling order) whose identification
\* equals code exactly, and None when there is none; on the schedule it
\* returns the first such node across the root items in order.
C15_FindByIdentification ==
    \A code \in Codes :
      /\ \A x \in Items :
           find_by_identification(item, x, code) = FirstWith(PreOrder(x), code)
      /\ schedule_find_by_identification(item, sched, code)
           = FirstWith(PreOrderAll(sched.items), code)

\* two rows carry the code; the one found lies deeper but earlier in
\* pre-order than the other, a root item
C15_Witness ==
    \E a \in Items, b \in Items, c \in Items :
      /\ sched.items = <<a, b>>
      /\ item[a].children = <<c>>
      /\ item[a].identification = "01"
      /\ item[b].identification = "01.05"
      /\ item[c].identification = "01.05"
      /\ b # c
      /\ schedule_find_by_identification(item, sched, "01.05") = c
      /\ schedule_find_by_identification(item, sched, "99") = None

\* s lists, in pre-order, the trees below the nodes of the list tops: every
\* node of those trees exactly once, each node directly followed by the
\* block of its descendants, siblings and tops in their list order
IsPreOrderOf(s, tops) ==
    /\ \A i, j \in DOMAIN s : s[i] = s[j] => i = j
    /\ Range(s) = UNION {Subtree(item, t) : t \in Range(tops)}
    /\ \A i \in DOMAIN s :
         LET size == Cardinality(Subtree(item, s[i])) IN
         /\ i + size - 1 <= Len(s)
         /\ {s[j] : j \in i..(i + size - 1)} = Subtree(item, s[i])
    /\ \A list \in {tops} \cup {item[n].children : n \in Range(s)} :
         \A a, b \in DOMAIN list :
           a < b => \A i \in Positions(s, list[a]), j \in Positions(s, list[b]) :
                      i < j

\* C16: for any acyclic forest, get_all_descendants() is the pre-order
\* sequence of the proper descendants, get_all_items() is the pre-order
\* traversal of the whole forest with every node exactly once, and
\* item_count equals len(get_all_items()).
C16_PreOrderTraversal ==
    (WellFormed /\ RootsConsistent) =>
      /\ \A x \in Items :
           IsPreOrderOf(get_all_descendants(item, x), item[x].children)
      /\ IsPreOrderOf(get_all_items(item, sched), sched.items)
      /\ item_count(item, sched) = Len(get_all_items(item, sched))

\* a forest of two roots, the first with a child: three items, the child
\* between the roots
C16_Witness ==
    /\ WellFormed /\ RootsConsistent
    /\ \E a \in Items, b \in Items, c \in Items :
         /\ sched.items = <<a, b>>
         /\ item[a].children = <<c>>
         /\ get_all_items(item, sched) = <<a, c, b>>
         /\ get_all_descendants(item, a) = <<c>>
         /\ item_count(item, sched) = 3

\* n written with at least two digits
TwoDigits(n) == IF n < 10 THEN "0" \o ToString(n) ELSE ToString(n)

\* C17: create_chapter without identification appends a new root chapter
\* whose identification is the two-digit zero-padded value of
\* len(schedule.items) + 1 taken before the append; a supplied non-empty
\* identification is used unchanged; and no later remove_item, insert_item
\* or add_item (nor create_chapter) changes an existing identification.
C17_CreateChapter ==
    [][/\ last'.op = "create_chapter" =>
            LET ch == last'.out IN
            /\ ch = Len(item) + 1 /\ Len(item') = Len(item) + 1
            /\ sched'.items = Append(sched.items, ch)
            /\ item'[ch].parent = None /\ item'[ch].schedule = TheSchedule
            /\ item'[ch].children = <<>>
            /\ item'[ch].identification =
                 IF last'.arg = "" THEN TwoDigits(Len(sched.items) + 1)
                 ELSE last'.arg
       /\ last'.op \in {"create_chapter", "remove_item", "insert_item",
                        "add_item"} =>
            \A n \in Items : item'[n].identification = item[n].identification
      ]_vars

\* a chapter numbered "02" behind another root; the other root has been
\* removed and the chapter, now the first root, is still "02"
C17_Witness ==
    /\ last.op = "remove_item" /\ last.ret = "True"
    /\ Len(sched.items) = 1
    /\ item[sched.items[1]].identification = "02"
    /\ item[sched.items[1]].name = ChapterName

\* C18: CostAPI.add_cost_item with neither a cost_schedule nor a parent
\* cost_item raises before any record is created and leaves the persisted
\* records unchanged; with at least one of them it creates exactly one new
\* record, under the schedule or the parent record that was given.
C18_AddCostItemNeedsParent ==
    [][last'.op = "add_cost_item" =>
         IF last'.self = None /\ last'.arg = None
         THEN last'.ret = ValueError /\ ifc' = ifc
         ELSE /\ last'.ret = "None"
              /\ Len(ifc') = Len(ifc) + 1
              /\ SubSeq(ifc', 1, Len(ifc)) = ifc
              /\ last'.out = Len(ifc')
              /\ \/ last'.self # None /\ ifc'[Len(ifc')].nest = None
                 \/ last'.arg # None /\ ifc'[Len(ifc')].nest = last'.arg
      ]_vars

\* the call without a parent has raised on a file that holds a record
\* under the schedule and one nested under it
C18_Witness ==
    /\ last.op = "add_cost_item" /\ last.ret = ValueError
    /\ Len(ifc) = 2
    /\ ifc[1].nest = None /\ ifc[2].nest = 1

\* the numeric attribute holds nothing usable: it is missing, None, empty
\* or a string that is not a number
Malformed(v) == v.t \in {"absent", "NoneType"} \/ (v.t = "str" /\ v.s \notin {"3.5", "12"})

\* the value the quantity of the loaded record is read from (PyAbsent when
\* there is no quantity record or it has none of the attributes read)
QuantityField(rec) ==
    IF rec.CostQuantities = <<>> THEN PyAbsent
    ELSE LET q == rec.CostQuantities[1]
             set == {i \in DOMAIN QuantityAttributes :
                       q[QuantityAttributes[i].attr].t # "absent"}
         IN  IF set = {} THEN PyAbsent
             ELSE q[QuantityAttributes[CHOOSE i \in set : TRUE].attr]

\* C19: loading never raises on malformed numeric data: whether the applied
\* value is wrapped or plain, and whether a numeric field is absent, empty
\* or unparsable, from_ifc returns a CostValue in which each such field is
\* 0.0.
C19_LoadDefaultsMalformed ==
    (last.op = "CostItem.from_ifc" /\ ifc[last.arg].CostValues # <<>>) =>
      LET rec == ifc[last.arg] IN
      /\ last.ret = "None"
      /\ Malformed(rec.CostValues[1].AppliedValue.value) =>
           unit_price(item, cval, last.out) = Zero
      /\ Malformed(QuantityField(rec)) =>
           quantity(item, cval, last.out) = Zero

\* the text is one of the member values when letter case is ignored
SameIgnoringCase(str, member) ==
    \/ str = member
    \/ <<str, member>> \in {<<"draft", "DRAFT">>, <<"Approved", "APPROVED">>}

\* C20: CostSchedule.from_ifc never fails on the enumeration fields: a
\* schedule type that is absent or not a ScheduleType value yields BUDGET,
\* a status that is absent or not, ignoring case, a ScheduleStatus value
\* yields DRAFT, and valid values are decoded to the matching member.
C20_ScheduleEnumsDefault ==
    last.op = "CostSchedule.from_ifc" =>
      LET pt == ifc[last.arg].PredefinedType
          st == ifc[last.arg].Status
      IN  /\ last.ret = "None"
          /\ sched.schedule_type =
               IF pt.t = "str" /\ pt.s \in ScheduleTypes THEN pt.s
               ELSE "BUDGET"
          /\ \A member \in ScheduleStatuses :
               (st.t = "str" /\ SameIgnoringCase(st.s, member))
                 => sched.status = member
          /\ ~ (\E member \in ScheduleStatuses :
                  st.t = "str" /\ SameIgnoringCase(st.s, member))
                 => sched.status = "DRAFT"

\* a file with an unknown schedule type and the status "Approved" has been
\* loaded as BUDGET and APPROVED
C20_Witness ==
    /\ last.op = "CostSchedule.from_ifc"
    /\ ifc[last.arg].PredefinedType = PyStr("NOTDEFINED")
    /\ ifc[last.arg].Status = PyStr("Approved")
    /\ sched.schedule_type = "BUDGET"
    /\ sched.status = "APPROVED"

\* the record of node n, None when it has none
RecordOf(n) == IF n = None THEN None ELSE item[n].ifc_cost_item

\* C21: after any sequence of controller edits followed by a save, the
\* persisted forest is isomorphic to the in-memory tree: every node of the
\* tree has exactly one persisted record of its own, nested under its
\* parent's record and carrying its current name and code, and no persisted
\* cost item is without a node of the tree.
C21_SavedForestIsomorphic ==
    last.op = "_do_save" =>
      LET nodes == Range(get_all_items(item, sched)) IN
      /\ \A n \in nodes :
           /\ RecordOf(n) # None
           /\ ifc[RecordOf(n)].nest = RecordOf(item[n].parent)
           /\ ifc[RecordOf(n)].Name = item[n].name
           /\ ifc[RecordOf(n)].Identification = item[n].identification
      /\ \A n \in nodes, m \in nodes : RecordOf(n) = RecordOf(m) => n = m
      /\ \A rid \in DOMAIN ifc : \E n \in nodes : RecordOf(n) = rid

\* C22: for every item that has a persisted record, after _sync_item_to_ifc
\* the SFB code, the text-only marker and the rich-text name read back by
\* get_sfb_code, get_is_text_only and get_html_name equal the item's
\* current sfb_code, is_text_only and html_name, whatever was persisted
\* before.
C22_SyncWritesAuxiliaryFields ==
    (last.op = "_sync_item_to_ifc" /\ item[last.self].ifc_cost_item # None) =>
      LET n == last.self  rid == item[last.self].ifc_cost_item IN
      /\ get_sfb_code(ifc, rid) = item[n].sfb_code
      /\ get_is_text_only(ifc, rid) = item[n].is_text_only
      /\ get_html_name(ifc, rid) = item[n].html_name

\* the rows of the table: for every item of get_all_items(), in order, its
\* code, name, subtotal and depth
Rows(h, c, sc) ==
    [i \in DOMAIN get_all_items(h, sc) |->
       <<h[get_all_items(h, sc)[i]].identification,
         h[get_all_items(h, sc)[i]].name,
         subtotal(h, c, get_all_items(h, sc)[i]),
         level(h, get_all_items(h, sc)[i])>>]

\* C23: round trip: a loaded tree flattened back to the persisted format
\* and loaded again, any number of times, has the same get_all_items()
\* sequence of (identification, name, subtotal) as the tree loaded first,
\* with the nesting and the child order preserved.
C23_RoundTrip ==
    [][(/\ last.op = "_sync_schedule_to_ifc"
        /\ last'.op = "_load_schedule_from_ifc"
        /\ Len(sched.items) > 0)
         => Rows(item', cval', sched') = Rows(item, cval, sched)
      ]_vars

\* the third load, after two flattenings, of a file with a priced row
\* nested two deep
C23_Witness ==
    /\ last.op = "_load_schedule_from_ifc" /\ last.n = 5
    /\ \E i \in DOMAIN Rows(item, cval, sched) :
         /\ Rows(item, cval, sched)[i][4] = 2
         /\ Rows(item, cval, sched)[i][3] = Ok(RInt(25))
    /\ Rows(item, cval, sched)[1] = <<"01", "Fundering", Ok(RInt(25)), 0>>

\* the controller operations that can change the in-memory tree
TreeChangingOps ==
    {"_add_chapter", "_add_cost_item", "_add_text_row", "_cut_item",
     "_paste_item", "_on_header_clicked"}

\* C24: every controller operation that changes the in-memory tree (here:
\* adds, cut, paste, a column sort or a sort reset that changes an item or
\* the schedule) leaves the dirty flag IFCHandler.is_modified true when it
\* completes
C24_TreeChangeMarksModified ==
    [][(/\ last'.op \in TreeChangingOps
        /\ last'.n = last.n + 1
        /\ (item' # item \/ sched' # sched))
       => is_modified']_vars

\* the children sequences of the document before the first click
OriginalChildren == <<<<2, 3, 4>>, <<5, 6>>, <<>>, <<>>, <<>>, <<>>>>

\* C30: column sorting is a cycle of three clicks on one column (ascending,
\* descending, reset); in every step schedule.items keeps its order and every
\* node keeps its set of children, and after the third click the sort state
\* is cleared and every children sequence is the one before the first click
C30_SortCycleRestoresOrder ==
    /\ sched.items = <<1>>
    /\ \A n \in Items : Range(item[n].children) = Range(OriginalChildren[n])
    /\ (last.op = "_on_header_clicked" /\ last.ret = "reset" /\ last.n = 3)
       => /\ app.sort_column = -1
          /\ \A n \in Items : item[n].children = OriginalChildren[n]

\* the part of C30 the code keeps: the reset clears the sort state, and no
\* click changes the root order or a node's set of children
C30_SortKeepsChildSets ==
    /\ sched.items = <<1>>
    /\ \A n \in Items : Range(item[n].children) = Range(OriginalChildren[n])
    /\ (last.op = "_on_header_clicked" /\ last.ret = "reset")
       => app.sort_column = -1 /\ app.sort_order = "Ascending"

\* the links form a forest in which every parent link has its children entry
\* and every parent chain ends
Forest ==
    /\ WellFormed
    /\ \A n \in Items :
         /\ level(item, n) # -1
         /\ item[n].parent # None => n \in Range(item[item[n].parent].children)

\* the step is p.add_child(a) or p.insert_child(i, a) in a forest, with a
\* being p or an ancestor of p
AttachesAncestor ==
    /\ last'.op \in {"add_child", "insert_child"}
    /\ last'.n = last.n + 1
    /\ Forest
    /\ last'.arg \in Range(get_path(item, last'.self))

\* the items from a down to p before the call: the cycle the call closes
CycleNodes(a, p) ==
    {x \in Range(get_path(item, p)) : a \in Range(get_path(item, x))}

\* C25 as stated: p.add_child(a) / p.insert_child(i, a) with a = p or an
\* ancestor of p succeeds and returns a; afterwards the parent chain from p
\* never ends, so level, get_path and get_full_identification on p do not
\* terminate, and subtotal and get_all_descendants on a recurse without end
C25_CycleDiverges ==
    [][AttachesAncestor =>
         /\ last'.ret = "None" /\ last'.out = last'.arg
         /\ level(item', last'.self) = -1
         /\ get_path(item', last'.self) = <<>>
         /\ ~subtotal(item', cval', last'.arg).ok
         /\ ~DescendantsRec(item', last'.arg, {}).ok]_vars

\* C25 amended: as stated, but the subtotal of a recurses without end only
\* when no item on the cycle from a down to p is a text row; with a text row
\* on the cycle it returns
C25_CycleDivergesUnlessText ==
    [][AttachesAncestor =>
         /\ last'.ret = "None" /\ last'.out = last'.arg
         /\ level(item', last'.self) = -1
         /\ get_path(item', last'.self) = <<>>
         /\ subtotal(item', cval', last'.arg).ok
              <=> \E x \in CycleNodes(last'.arg, last'.self) :
                     item[x].is_text_only
         /\ ~DescendantsRec(item', last'.arg, {}).ok]_vars

\* a grandparent was attached under its grandchild: a cycle of three items
C25_Witness ==
    /\ last.op = "add_child"
    /\ last.arg # last.self
    /\ item[last.self].parent # last.arg
    /\ level(item, last.self) = -1
    /\ last.arg \in Range(item[last.self].children)
    /\ ~subtotal(item, cval, last.arg).ok
    /\ ~DescendantsRec(item, last.arg, {}).ok

\* the number of positions of list s that hold object x
Occurrences(s, x) == Cardinality({i \in DOMAIN s : s[i] = x})

\* C26: after any move_up or move_down, whatever it returns, the children
\* sequence of the node's parent is a permutation of the sequence before the
\* call: every child object occurs as often as before, none is lost or
\* duplicated, also when two distinct siblings are equal in all fields
C26_MoveKeepsChildren ==
    [][(/\ last'.op \in {"move_up", "move_down"}
        /\ last'.n = last.n + 1
        /\ WellFormed
        /\ item[last'.self].parent # None)
       => \A x \in Items :
            Occurrences(item'[item[last'.self].parent].children, x)
              = Occurrences(item[item[last'.self].parent].children, x)]_vars

\* a call of handler fn is in progress
Running(fn) == \E i \in DOMAIN app.stack : app.stack[i].fn = fn

\* the step is a call of handler fn
CallOf(fn) == last'.op = fn /\ last'.n = last.n + 1

\* C27: a call of _on_item_changed made while one is executing returns at
\* once without writing to the persisted records or marking the dirty flag,
\* and a call of _on_data_changed made while one is executing returns
\* without emitting itemChanged (no handler is entered); the guard flag of a
\* handler is false whenever no call of it is in progress, also after its
\* body raised, so that the next notification is handled
C27_ReentrancyGuard ==
    [][/\ \A fn \in {"_on_item_changed", "_on_data_changed"} :
            /\ (CallOf(fn) /\ Running(fn))
                 => /\ last'.ret = "returned"
                    /\ UNCHANGED <<ifc, is_modified, item>>
                    /\ Len(app'.stack) = Len(app.stack)
                    /\ guard_flag(app', fn)
            /\ (CallOf(fn) /\ ~Running(fn))
                 => /\ last'.ret = "entered"
                    /\ guard_flag(app', fn)
                    /\ Len(app'.stack) = Len(app.stack) + 1
       /\ (~\E i \in DOMAIN app'.stack : app'.stack[i].fn = "_on_item_changed")
            => ~app'.updating_item
       /\ (~\E i \in DOMAIN app'.stack : app'.stack[i].fn = "_on_data_changed")
            => ~app'.handling_data_change]_vars

\* a nested call of _on_item_changed has just returned at once while a call
\* of each handler is running
C27_Witness ==
    /\ last.op = "_on_item_changed"
    /\ last.ret = "returned"
    /\ Len(app.stack) = 2
    /\ app.updating_item /\ app.handling_data_change

\* the step is a call of IFCHandler method op
FileCall(op) == last'.op = op /\ last'.n = last.n + 1

\* the call returned: it raised none of the exceptions
Succeeded == last'.ret \notin {ValueError, FileNotFoundError, OSError}

\* C28: is_modified is true exactly when new_file or mark_modified happened
\* since the last successful open_file, save_file or close_file: new_file and
\* mark_modified set it, a successful open, save or close clears it, and a
\* call that raises leaves it as it was; a save_file with no file open, or
\* with no path given and none stored, raises ValueError and leaves
\* is_modified and file_path unchanged
C28_DirtyFlagLifecycle ==
    [][/\ (FileCall("new_file") \/ FileCall("mark_modified")) => is_modified'
       /\ ((FileCall("open_file") \/ FileCall("save_file")
              \/ FileCall("close_file")) /\ Succeeded) => ~is_modified'
       /\ ((FileCall("open_file") \/ FileCall("save_file")) /\ ~Succeeded)
            => is_modified' = is_modified
       /\ (/\ FileCall("save_file")
           /\ (~app.ifc_file \/ (~Truthy(last'.arg) /\ app.file_path = <<>>)))
            => /\ last'.ret = ValueError
               /\ is_modified' = is_modified
               /\ app'.file_path = app.file_path]_vars

\* a save without a path on a new, modified file has just raised ValueError
C28_Witness ==
    /\ last.op = "save_file"
    /\ last.ret = ValueError
    /\ app.ifc_file /\ app.file_path = <<>>
    /\ is_modified

\* the 1-based position of object x in list s (0 when absent)
PositionOf(s, x) ==
    IF \E i \in DOMAIN s : s[i] = x
    THEN CHOOSE i \in DOMAIN s : s[i] = x /\ \A j \in 1..(i - 1) : s[j] # x
    ELSE 0

\* list s without its position i
Without(s, i) == SubSeq(s, 1, i - 1) \o SubSeq(s, i + 1, Len(s))

\* C29: in a forest with consistent roots the add-chapter handler inserts
\* the new chapter directly after the root chapter that contains the
\* selected row (at the end when nothing is selected) and renumbers all
\* roots: schedule.items[i].identification is the two-digit value of i+1,
\* the new chapter has parent None and the schedule as schedule, and the
\* relative order, children and subtotals of the chapters that existed are
\* unchanged
C29_AddChapter ==
    [][(/\ last'.op = "_add_chapter"
        /\ last'.n = last.n + 1
        /\ WellFormed /\ RootsConsistent)
       => /\ last'.ret = "None"
          /\ last'.out \notin Items
          /\ PositionOf(sched'.items, last'.out) =
               IF last'.arg = None THEN Len(sched.items) + 1
               ELSE PositionOf(sched.items, RootOf(item, last'.arg)) + 1
          /\ \A i \in DOMAIN sched'.items :
               item'[sched'.items[i]].identification = TwoDigits(i)
          /\ item'[last'.out].parent = None
          /\ item'[last'.out].schedule = TheSchedule
          /\ Without(sched'.items, PositionOf(sched'.items, last'.out))
               = sched.items
          /\ \A r \in Range(sched.items) :
               /\ item'[r].children = item[r].children
               /\ subtotal(item', cval', r) = subtotal(item, cval, r)]_vars

====
